---- MODULE Spec2Model ----
(***************************************************************************)
(* Verification model of ics_parser: the recurrence engine                 *)
(* (src/src/property.rs), the time-zone engine and the calendar assembly   *)
(* (src/src/components.rs).                                                *)
(*                                                                         *)
(* chrono::NaiveDateTime is modelled as the number of seconds since        *)
(* 1962-01-01T00:00:00 (a Monday); every instant of the model is >= 0.     *)
(* A DateTime<FixedOffset> or DateTime<Utc> is modelled by its UTC seconds.*)
(* Option<T> is a sequence: << >> is None and <<v>> is Some(v).            *)
(* A chrono with_*() that returns None is modelled by -1; the expect()     *)
(* that follows it in the source turns it into a panic.                    *)
(***************************************************************************)
EXTENDS Integers, Sequences, FiniteSets, TLC

-----------------------------------------------------------------------------
(* Bounds of the model *)

\* number of anchors one call of RecurIter::next may consume before the
\* model gives up following the while loop
MaxFill == 8

\* largest COUNT of the rules of the model
MaxCount == 3

\* number of values the model pulls out of one event iterator
MaxOut == 5

\* number of base instances EventCollection::recur_iter may walk over, and
\* the filter on exceptions may skip, before the model gives up
MaxWalk == 8

\* number of calls of RecurIter::next the model follows on the iterator of
\* recur_rule_until_utc, which yields seven values
MaxYield == 8

-----------------------------------------------------------------------------
(* Generic helpers *)

\* Rust's % on signed integers truncates toward zero
RemT(a, b) == IF a >= 0 THEN a % b ELSE 0 - ((0 - a) % b)

Contains(s, v) == \E i \in DOMAIN s : s[i] = v

Last(s) == s[Len(s)]

RECURSIVE Flatten(_)
Flatten(ss) == IF ss = << >> THEN << >> ELSE Head(ss) \o Flatten(Tail(ss))

\* itertools dedup(): consecutive equal elements are collapsed
RECURSIVE dedup(_)
dedup(s) ==
    IF Len(s) <= 1 THEN s
    ELSE IF s[1] = s[2] THEN dedup(Tail(s))
    ELSE <<s[1]>> \o dedup(Tail(s))

\* a date set in which an expect() failed
PanicSet == <<-1>>

Chk(s) == IF \E i \in DOMAIN s : s[i] < 0 THEN PanicSet ELSE s

-----------------------------------------------------------------------------
(* chrono calendar arithmetic (proleptic Gregorian) *)

IsLeap(y) == (y % 4 = 0 /\ y % 100 # 0) \/ y % 400 = 0

LeapsBefore(y) == ((y - 1) \div 4) - ((y - 1) \div 100) + ((y - 1) \div 400)

DaysBeforeYear(y) == 365 * (y - 1962) + LeapsBefore(y) - 475

DaysInMonthOf(y, m) ==
    IF m = 2 THEN (IF IsLeap(y) THEN 29 ELSE 28)
    ELSE IF m \in {4, 6, 9, 11} THEN 30 ELSE 31

DaysBeforeMonth(y, m) ==
    <<0, 31, 59, 90, 120, 151, 181, 212, 243, 273, 304, 334>>[m]
        + (IF m > 2 /\ IsLeap(y) THEN 1 ELSE 0)

DayNo(t) == t \div 86400

TimeOf(t) == t % 86400

year(t) ==
    LET n == DayNo(t)
        e == 1962 + (n \div 366)
    IN  IF DaysBeforeYear(e + 1) <= n THEN e + 1 ELSE e

ordinal(t) == DayNo(t) - DaysBeforeYear(year(t)) + 1

month(t) ==
    LET y == year(t)
        o == ordinal(t) - 1
    IN  CHOOSE m \in 1..12 :
            /\ DaysBeforeMonth(y, m) <= o
            /\ o < DaysBeforeMonth(y, m) + DaysInMonthOf(y, m)

month0(t) == month(t) - 1

day(t) == ordinal(t) - DaysBeforeMonth(year(t), month(t))

\* Weekday::num_days_from_monday()
weekday(t) == DayNo(t) % 7

hour(t) == TimeOf(t) \div 3600

minute(t) == (TimeOf(t) % 3600) \div 60

second(t) == TimeOf(t) % 60

\* NaiveDate::from_ymd_opt(y, m, d).and_time(secs)
MakeDT(y, m, d, secs) ==
    IF m \in 1..12 /\ d >= 1 /\ d <= DaysInMonthOf(y, m)
    THEN (DaysBeforeYear(y) + DaysBeforeMonth(y, m) + d - 1) * 86400 + secs
    ELSE -1

with_day(t, d) == MakeDT(year(t), month(t), d, TimeOf(t))

with_month(t, m) == MakeDT(year(t), m, day(t), TimeOf(t))

with_month0(t, m0) == with_month(t, m0 + 1)

with_year(t, y) == MakeDT(y, month(t), day(t), TimeOf(t))

with_ordinal(t, o) ==
    IF o >= 1 /\ o <= (IF IsLeap(year(t)) THEN 366 ELSE 365)
    THEN (DaysBeforeYear(year(t)) + o - 1) * 86400 + TimeOf(t)
    ELSE -1

with_hour(t, h) == IF h \in 0..23 THEN DayNo(t) * 86400 + h * 3600 + (TimeOf(t) % 3600) ELSE -1

with_minute(t, m) ==
    IF m \in 0..59 THEN DayNo(t) * 86400 + hour(t) * 3600 + m * 60 + second(t) ELSE -1

with_second(t, s) == IF s \in 0..59 THEN t - second(t) + s ELSE -1

\* ExtendedDatelike::same_day
same_day(a, b) == year(a) = year(b) /\ ordinal(a) = ordinal(b)

get_days_in_year(t) == IF with_ordinal(t, 366) >= 0 THEN 366 ELSE 365

get_days_in_month(t) ==
    IF with_day(t, 31) >= 0 THEN 31
    ELSE IF with_day(t, 30) >= 0 THEN 30
    ELSE IF with_day(t, 29) >= 0 THEN 29
    ELSE 28

\* the number of ISO weeks of the year y: 53 when 1 January is a Thursday,
\* or a Wednesday in a leap year
weeks_of_iso_year(y) ==
    IF (DaysBeforeYear(y) % 7 = 3) \/ (IsLeap(y) /\ DaysBeforeYear(y) % 7 = 2) THEN 53 ELSE 52

\* Datelike::iso_week().week()
iso_week(t) ==
    IF (ordinal(t) - weekday(t) + 9) \div 7 < 1 THEN weeks_of_iso_year(year(t) - 1)
    ELSE IF (ordinal(t) - weekday(t) + 9) \div 7 > weeks_of_iso_year(year(t)) THEN 1
    ELSE (ordinal(t) - weekday(t) + 9) \div 7

\* get_weeks_in_year: NaiveDate::from_isoywd_opt(year, 53, week_start) exists
get_weeks_in_year(week_start, t) == weeks_of_iso_year(year(t))

-----------------------------------------------------------------------------
(* Recurrence rules *)

\* RecurRule of "FREQ=DAILY": every optional part absent, INTERVAL=1, WKST=MO
BaseRule ==
    [frequency |-> "Daily", interval |-> 1, end_condition |-> [type |-> "Infinite", v |-> 0],
     by_second |-> << >>, by_minute |-> << >>, by_hour |-> << >>, by_day |-> << >>,
     by_month_day |-> << >>, by_year_day |-> << >>, by_week_number |-> << >>,
     by_month |-> << >>, by_set_pos |-> << >>, week_start |-> 0]

Count(n) == [type |-> "Count", v |-> n]

Until(t) == [type |-> "Until", v |-> t]

UntilUtc(t) == [type |-> "UntilUtc", v |-> t]

\* one BYDAY entry (Option<i8>, Weekday)
WD(num, wd) == [num |-> num, day |-> wd]

\* advance_date that leaves the year of a monthly anchor alone
advance_date_same_year(frequency, date, interval) ==
    IF frequency = "Monthly"
    THEN with_month0(with_day(date, 1), (month0(date) + interval) % 12)
    ELSE IF frequency = "Yearly" THEN with_year(with_day(date, 1), year(date) + interval)
    ELSE date + interval * (CASE frequency = "Secondly" -> 1 [] frequency = "Minutely" -> 60
                              [] frequency = "Hourly" -> 3600 [] frequency = "Daily" -> 86400
                              [] OTHER -> 7 * 86400)

\* Frequency::advance_date; the intervals of the model are far below the
\* widths of the casts `interval as u32` and `interval as i32`
advance_date(frequency, date, interval) ==
    IF frequency = "Secondly" THEN date + interval
    ELSE IF frequency = "Minutely" THEN date + 60 * interval
    ELSE IF frequency = "Hourly" THEN date + 3600 * interval
    ELSE IF frequency = "Daily" THEN date + 86400 * interval
    ELSE IF frequency = "Weekly" THEN date + 86400 * 7 * interval
    ELSE IF frequency = "Monthly" THEN
        LET current_month == month0(date)
        IN  with_year(with_month0(with_day(date, 1), (current_month + interval) % 12),
                      year(date) + ((current_month + interval) \div 12))
    ELSE with_year(with_day(date, 1), year(date) + interval)

\* get_weekdays_in_period: every `day` in [start, end), or only the num-th
get_weekdays_in_period(start, end, wd, num) ==
    LET diff == (wd - weekday(start)) % 7
        first == start + 86400 * diff
        n == IF first < end THEN ((end - first - 1) \div (7 * 86400)) + 1 ELSE 0
        potential_dates == [k \in 1..n |-> first + (k - 1) * 7 * 86400]
    IN  IF num = << >> THEN potential_dates
        ELSE IF num[1] > 0 THEN
            (IF num[1] <= n THEN <<potential_dates[num[1]]>> ELSE << >>)
        ELSE IF n = 0 THEN PanicSet
        ELSE <<potential_dates[(num[1] % n) + 1]>>

\* get_start_of_week
get_start_of_week(week_start, date) ==
    LET difference == week_start - weekday(date)
    IN  date + 86400 * (IF difference > 0 THEN difference - 7 ELSE difference)

\* expand_dates, BYMONTH part
expand_by_month(recur, date_set) ==
    IF recur.by_month = << >> \/ date_set = PanicSet THEN date_set
    ELSE IF recur.frequency # "Yearly" THEN
        SelectSeq(date_set, LAMBDA d : Contains(recur.by_month, month(d)))
    ELSE Chk(Flatten([i \in 1..Len(date_set) |->
                [j \in 1..Len(recur.by_month) |-> with_month(date_set[i], recur.by_month[j])]]))

\* the day of the month selected by one BYMONTHDAY value
month_day_of(s, days_in_month) ==
    LET a == IF s > 0 THEN s - 1 ELSE s + days_in_month
        r == RemT(a, days_in_month)
    IN  IF r < 0 THEN -1 ELSE r + 1

\* expand_dates, BYMONTHDAY part
expand_by_month_day(recur, date_set) ==
    IF recur.by_month_day = << >> \/ date_set = PanicSet THEN date_set
    ELSE IF recur.frequency \in {"Secondly", "Minutely", "Hourly", "Daily", "Weekly"} THEN
        IF \E i \in DOMAIN date_set : \E j \in DOMAIN recur.by_month_day :
                month_day_of(recur.by_month_day[j], get_days_in_month(date_set[i])) < 0
        THEN PanicSet
        ELSE SelectSeq(date_set, LAMBDA d :
                \E j \in DOMAIN recur.by_month_day :
                    month_day_of(recur.by_month_day[j], get_days_in_month(d)) = day(d))
    ELSE Chk(Flatten([i \in 1..Len(date_set) |->
                [j \in 1..Len(recur.by_month_day) |->
                    with_day(date_set[i],
                             month_day_of(recur.by_month_day[j], get_days_in_month(date_set[i])))]]))

\* the (start, end) of the month of d
month_period(d) ==
    LET month_start == with_day(d, 1)
    IN  <<month_start, with_day(month_start + 32 * 86400, 1)>>

\* expand_dates, BYDAY part of a YEARLY rule: the period the weekdays are taken from
yearly_period(recur, d) ==
    IF recur.by_week_number # << >> THEN
        LET diff == weekday(d) - recur.week_start
        IN  IF diff < 0 THEN <<-1, -1>> ELSE <<d - 86400 * diff, d - 86400 * diff + 7 * 86400>>
    ELSE IF recur.by_month # << >> THEN month_period(d)
    ELSE LET start == with_month(with_day(d, 1), 1)
         IN  <<start, with_year(start, year(start) + 1)>>

\* expand_dates, BYDAY part
expand_by_day(recur, date_set) ==
    IF recur.by_day = << >> \/ date_set = PanicSet THEN date_set
    ELSE IF recur.frequency \in {"Secondly", "Minutely", "Hourly", "Daily"} THEN
        SelectSeq(date_set, LAMBDA d : \E j \in DOMAIN recur.by_day : recur.by_day[j].day = weekday(d))
    ELSE IF recur.frequency = "Weekly" THEN
        Flatten([i \in 1..Len(date_set) |->
            LET week_start == get_start_of_week(recur.week_start, date_set[i])
            IN  [j \in 1..Len(recur.by_day) |->
                    week_start + 86400 * ((7 + recur.by_day[j].day - weekday(week_start)) % 7)]])
    ELSE IF recur.frequency = "Monthly" THEN
        Flatten([i \in 1..Len(date_set) |->
            LET d == date_set[i]
                p == month_period(d)
            IN  Flatten([j \in 1..Len(recur.by_day) |->
                    SelectSeq(get_weekdays_in_period(p[1], p[2], recur.by_day[j].day, recur.by_day[j].num),
                              LAMBDA date : recur.by_month_day = << >> \/ same_day(date, d))])])
    ELSE
        LET limit == recur.by_year_day # << >> \/ recur.by_month_day # << >>
        IN  IF \E i \in DOMAIN date_set : yearly_period(recur, date_set[i])[1] < 0 THEN PanicSet
            ELSE Chk(Flatten([i \in 1..Len(date_set) |->
                    LET d == date_set[i]
                        p == yearly_period(recur, d)
                    IN  Flatten([j \in 1..Len(recur.by_day) |->
                            LET dates == get_weekdays_in_period(p[1], p[2], recur.by_day[j].day,
                                                                recur.by_day[j].num)
                            IN  IF dates = PanicSet THEN dates
                                ELSE SelectSeq(dates, LAMBDA date : ~limit \/ same_day(date, d))])]))

\* the date of one BYWEEKNO value s for the anchor d. `s %= weeks_in_year`
\* leaves a negative s negative or makes it 0; `s as u32 - week` is then
\* either an underflow or a number of days no NaiveDateTime can hold, and a
\* week before the anchor's underflows as well: each of them panics
week_number_date(recur, d, s) ==
    IF (IF s < 0 THEN RemT(s, get_weeks_in_year(recur.week_start, d)) ELSE s) < iso_week(d) THEN -1
    ELSE d + 86400 * (s - iso_week(d))

\* expand_dates, BYWEEKNO part
expand_by_week_number(recur, date_set) ==
    IF recur.by_week_number = << >> \/ date_set = PanicSet THEN date_set
    ELSE IF recur.frequency # "Yearly" THEN PanicSet
    ELSE Chk(Flatten([i \in 1..Len(date_set) |->
                [j \in 1..Len(recur.by_week_number) |->
                    week_number_date(recur, date_set[i], recur.by_week_number[j])]]))

\* the day of the year selected by one BYYEARDAY value
year_day_of(s, days_in_year) ==
    IF RemT(IF s > 0 THEN s - 1 ELSE s + days_in_year, days_in_year) < 0 THEN -1
    ELSE RemT(IF s > 0 THEN s - 1 ELSE s + days_in_year, days_in_year) + 1

\* expand_dates, BYYEARDAY part
expand_by_year_day(recur, date_set) ==
    IF recur.by_year_day = << >> \/ date_set = PanicSet THEN date_set
    ELSE IF recur.frequency # "Yearly" THEN
        IF \E i \in DOMAIN date_set : \E j \in DOMAIN recur.by_year_day :
                year_day_of(recur.by_year_day[j], get_days_in_year(date_set[i])) < 0
        THEN PanicSet
        ELSE SelectSeq(date_set, LAMBDA d :
                \E j \in DOMAIN recur.by_year_day :
                    year_day_of(recur.by_year_day[j], get_days_in_year(d)) = ordinal(d))
    ELSE Chk(Flatten([i \in 1..Len(date_set) |->
                [j \in 1..Len(recur.by_year_day) |->
                    with_ordinal(date_set[i],
                                 year_day_of(recur.by_year_day[j], get_days_in_year(date_set[i])))]]))

\* expand_dates
expand_dates(recur, date_set) ==
    expand_by_day(recur,
        expand_by_month_day(recur,
            expand_by_year_day(recur,
                expand_by_week_number(recur, expand_by_month(recur, date_set)))))

\* expand_times
expand_times(recur, date_set) ==
    LET hours ==
            IF recur.by_hour = << >> \/ date_set = PanicSet THEN date_set
            ELSE IF recur.frequency \in {"Secondly", "Minutely", "Hourly"} THEN
                SelectSeq(date_set, LAMBDA d : Contains(recur.by_hour, hour(d)))
            ELSE Chk(Flatten([i \in 1..Len(date_set) |->
                    [j \in 1..Len(recur.by_hour) |-> with_hour(date_set[i], recur.by_hour[j])]]))
        minutes ==
            IF recur.by_minute = << >> \/ hours = PanicSet THEN hours
            ELSE IF recur.frequency \in {"Secondly", "Minutely"} THEN
                SelectSeq(hours, LAMBDA d : Contains(recur.by_minute, minute(d)))
            ELSE Chk(Flatten([i \in 1..Len(hours) |->
                    [j \in 1..Len(recur.by_minute) |-> with_minute(hours[i], recur.by_minute[j])]]))
    IN  IF recur.by_second = << >> \/ minutes = PanicSet THEN minutes
        ELSE IF recur.frequency = "Secondly" THEN
            SelectSeq(minutes, LAMBDA d : Contains(recur.by_second, second(d)))
        ELSE Chk(Flatten([i \in 1..Len(minutes) |->
                [j \in 1..Len(recur.by_second) |-> with_second(minutes[i], recur.by_second[j])]]))

\* <NaiveDateTime as Expandable>::expand_date_set
expand_date_set(date, recur) == expand_times(recur, expand_dates(recur, <<date>>))

-----------------------------------------------------------------------------
(* RecurIter *)

\* struct RecurIter; status is "ok", "panic" (an expect() or an index
\* failed) or "spin" (the while loop of next() consumed MaxFill anchors
\* without filling the queue)
NewRecurIter(recur, date, max_count, until) ==
    [recur |-> recur, next_date |-> <<date>>, queue |-> << >>, count |-> 0,
     max_count |-> max_count, until |-> until, previous_date |-> << >>, status |-> "ok"]

\* the index BYSETPOS value p selects, 0-based
set_pos_index(recur, p) == IF p > 0 THEN p - 1 ELSE p % Len(recur.by_set_pos)

\* RecurIter::next, the BYSETPOS selection
apply_set_pos(recur, date_set) ==
    IF recur.by_set_pos = << >> \/ date_set = PanicSet THEN date_set
    ELSE IF \E k \in DOMAIN recur.by_set_pos :
                set_pos_index(recur, recur.by_set_pos[k]) >= Len(date_set)
         THEN PanicSet
         ELSE [k \in 1..Len(recur.by_set_pos) |->
                    date_set[set_pos_index(recur, recur.by_set_pos[k]) + 1]]

\* consume_anchor that queues the date set as it is expanded
consume_anchor_unfiltered(it, date_set) ==
    IF date_set = PanicSet
    THEN [it EXCEPT !.next_date = <<advance_date(it.recur.frequency, it.next_date[1], it.recur.interval)>>,
                    !.status = "panic"]
    ELSE [it EXCEPT !.next_date = <<advance_date(it.recur.frequency, it.next_date[1], it.recur.interval)>>,
                    !.queue = date_set]

\* RecurIter::next, one pass of the while loop: the anchor is advanced and
\* the date set it expanded to, less previous_date and deduplicated, becomes
\* the queue
consume_anchor(it, date_set) ==
    LET advanced == [it EXCEPT !.next_date = <<advance_date(it.recur.frequency, it.next_date[1],
                                                            it.recur.interval)>>]
    IN  IF date_set = PanicSet THEN [advanced EXCEPT !.status = "panic"]
        ELSE [advanced EXCEPT !.queue =
                dedup(SelectSeq(date_set, LAMBDA date : <<date>> # it.previous_date))]

\* RecurIter::next, the while loop that fills the queue
RECURSIVE fill_queue(_, _)
fill_queue(it, fuel) ==
    IF it.queue # << >> \/ it.status # "ok" \/ it.next_date = << >> THEN it
    ELSE IF fuel = 0 THEN [it EXCEPT !.status = "spin"]
    ELSE fill_queue(
            consume_anchor(it, apply_set_pos(it.recur, expand_date_set(it.next_date[1], it.recur))),
            fuel - 1)

\* passes_end without the UNTIL test
passes_end_ignores_until(it, to_return) ==
    it.max_count = << >> \/ it.count < it.max_count[1]

\* passes_end with the COUNT test off by one (count > max_count)
passes_end_count_off_by_one(it, to_return) ==
    /\ (it.max_count = << >> \/ it.count <= it.max_count[1])
    /\ (it.until = << >> \/ to_return <= it.until[1])

\* RecurIter::next, the termination checks on the popped value
passes_end(it, to_return) ==
    /\ (it.max_count = << >> \/ it.count < it.max_count[1])
    /\ (it.until = << >> \/ to_return <= it.until[1])

\* RecurIter::next after the while loop: the head of the queue is popped
\* and checked against the end of the rule
pop_queue(it) ==
    IF it.status # "ok" \/ it.queue = << >> THEN [it |-> it, val |-> << >>]
    ELSE IF passes_end(it, Head(it.queue))
    THEN [it |-> [it EXCEPT !.queue = Tail(it.queue), !.count = it.count + 1,
                            !.previous_date = <<Head(it.queue)>>],
          val |-> <<Head(it.queue)>>]
    ELSE [it |-> [it EXCEPT !.queue = Tail(it.queue)], val |-> << >>]

\* RecurIter::next: the new iterator and the Option it returns
recur_next(it) == pop_queue(fill_queue(it, MaxFill))

-----------------------------------------------------------------------------
(* The iterator chain of from_date_with_extras, from_naive_date_with_extras *)

\* the RecurIter, the state of itertools' merge (the peeked head of the
\* RecurIter, the position in rdates, which side is exhausted), the value
\* dedup() saw last, and whether the chain has returned None
NewExtras(ri) ==
    [ri |-> ri, a_peek |-> << >>, b_pos |-> 1, fused |-> << >>, last |-> << >>,
     done |-> FALSE]

\* itertools merge(): the smaller head first, the RecurIter's on a tie; once
\* one side has returned None only the other side is polled
merge_heads(rdates, st, a_res) ==
    LET b_head == IF st.b_pos <= Len(rdates) THEN <<rdates[st.b_pos]>> ELSE << >>
        take_a == [st |-> [st EXCEPT !.ri = a_res.it, !.a_peek = << >>], val |-> a_res.val]
        take_b == [st |-> [st EXCEPT !.ri = a_res.it, !.a_peek = <<a_res.val>>,
                                     !.b_pos = st.b_pos + 1],
                   val |-> b_head]
    IN  IF st.fused = <<FALSE>> THEN
            [st |-> [st EXCEPT !.b_pos = IF b_head = << >> THEN st.b_pos ELSE st.b_pos + 1],
             val |-> b_head]
        ELSE IF st.fused = <<TRUE>> THEN take_a
        ELSE IF a_res.it.status # "ok" THEN take_a
        ELSE IF a_res.val # << >> /\ b_head # << >> THEN
            (IF a_res.val[1] <= b_head[1] THEN take_a ELSE take_b)
        ELSE IF a_res.val # << >> THEN [take_a EXCEPT !.st.fused = <<TRUE>>]
        ELSE IF b_head # << >> THEN [take_b EXCEPT !.st.fused = <<FALSE>>]
        ELSE [st |-> [st EXCEPT !.ri = a_res.it, !.a_peek = <<a_res.val>>], val |-> << >>]

\* one next() of the merge: the RecurIter is polled unless its head is
\* already peeked
merge_next(rdates, st) ==
    merge_heads(rdates, st,
                IF st.a_peek # << >> THEN [it |-> st.ri, val |-> st.a_peek[1]]
                ELSE recur_next(st.ri))

\* a filter on exdates that lets every value through
excluded_never(exdates, v) == FALSE

\* .filter(move |d| exdates.iter().all(|ex| !d.eq(ex))), negated
excluded(exdates, v) == Contains(exdates, v)

\* one next() of the chain, as far as its output goes (dedup() is modelled
\* by the values it lets through, not by its one-element look-ahead).
\* order "dedup_filter" is from_date_with_extras (merge, dedup, filter on
\* exdates), "filter_dedup" is from_naive_date_with_extras (merge, filter on
\* exdates, dedup)
RECURSIVE extras_next(_, _, _, _)
RECURSIVE extras_pass(_, _, _, _)
extras_pass(rdates, exdates, order, m) ==
    IF m.st.ri.status # "ok" THEN [st |-> m.st, val |-> << >>]
    ELSE IF m.val = << >> THEN [st |-> [m.st EXCEPT !.done = TRUE], val |-> << >>]
    ELSE IF order = "dedup_filter" THEN
        (IF m.val = m.st.last
         THEN extras_next(rdates, exdates, order, m.st)
         ELSE IF excluded(exdates, m.val[1])
         THEN extras_next(rdates, exdates, order, [m.st EXCEPT !.last = m.val])
         ELSE [st |-> [m.st EXCEPT !.last = m.val], val |-> m.val])
    ELSE
        (IF excluded(exdates, m.val[1]) \/ m.val = m.st.last
         THEN extras_next(rdates, exdates, order, m.st)
         ELSE [st |-> [m.st EXCEPT !.last = m.val], val |-> m.val])

extras_next(rdates, exdates, order, st) ==
    IF st.done \/ st.ri.status # "ok" THEN [st |-> st, val |-> << >>]
    ELSE extras_pass(rdates, exdates, order, merge_next(rdates, st))

\* the max_count the constructors take from the end condition
max_count_of(recur) ==
    IF recur.end_condition.type = "Count" THEN <<recur.end_condition.v>> ELSE << >>

-----------------------------------------------------------------------------
(* Time zones *)

\* struct OffsetRule
OffsetRule(offset_from, offset_to, start, recur) ==
    [offset_from |-> offset_from, offset_to |-> offset_to, start |-> start, recur |-> recur,
     rdates |-> << >>, exdates |-> << >>]

\* <FixedOffset as Offseter>::from_instance
fixed_from_instance(off, d) == d + off

\* <FixedOffset as Offseter>::to_instance
fixed_to_instance(off, d) == d - off

\* the until an iterator over an OffsetRule's recurrence takes from the end
\* condition, with the rule's offset_from as the offseter
rule_until(r) ==
    LET e == r.recur[1].end_condition
    IN  IF e.type = "Until" THEN <<e.v>>
        ELSE IF e.type = "UntilUtc" THEN <<fixed_from_instance(r.offset_from, e.v)>>
        ELSE << >>

\* get_effective_offset: whether the rule r is in force at date, which is
\* local or UTC; upto_start is the start of the next rule, << >> for the last
rule_covers(r, upto_start, date, local) ==
    LET d == IF local THEN date ELSE date + r.offset_from
    IN  /\ r.start <= d
        /\ upto_start = << >> \/ d < upto_start[1]

\* until_exceeded that never finds the bound exceeded
until_never_exceeded(r, date, local) == FALSE

\* get_effective_offset: the UntilUtc bound of r lies before date
until_exceeded(r, date, local) ==
    LET d == IF local THEN date ELSE date + r.offset_from
    IN  /\ r.recur # << >>
        /\ r.recur[1].end_condition.type = "UntilUtc"
        /\ r.recur[1].end_condition.v < fixed_to_instance(r.offset_from, d)

\* get_effective_offset: Option<OffsetRule>
get_effective_offset(slice, date, local) ==
    LET hits == {i \in 1..(Len(slice) - 1) :
                    /\ rule_covers(slice[i], <<slice[i + 1].start>>, date, local)
                    /\ ~until_exceeded(slice[i], date, local)}
    IN  IF hits # {} THEN <<slice[CHOOSE i \in hits : \A j \in hits : i <= j]>>
        ELSE IF slice # << >>
                /\ rule_covers(Last(slice), << >>, date, local)
                /\ ~until_exceeded(Last(slice), date, local)
        THEN <<Last(slice)>>
        ELSE << >>

\* .take_while(|d| d <= bound).last() over from_date_with_extras: best is the
\* last value seen; -1 when the iterator panics or never returns
RECURSIVE last_before_extras(_, _, _, _, _)
RECURSIVE last_of_extras(_, _, _, _, _)
last_of_extras(rdates, exdates, r, bound, best) ==
    IF r.st.ri.status # "ok" THEN -1
    ELSE IF r.val = << >> \/ r.val[1] > bound THEN best
    ELSE last_before_extras(rdates, exdates, r.st, bound, r.val[1])

last_before_extras(rdates, exdates, st, bound, best) ==
    last_of_extras(rdates, exdates, extras_next(rdates, exdates, "dedup_filter", st), bound, best)

\* .take_while(|d| d <= bound).last() over from_date
RECURSIVE last_before(_, _, _)
RECURSIVE last_of(_, _, _)
last_of(r, bound, best) ==
    IF r.it.status # "ok" THEN -1
    ELSE IF r.val = << >> \/ r.val[1] > bound THEN best
    ELSE last_before(r.it, bound, r.val[1])

last_before(it, bound, best) == last_of(recur_next(it), bound, best)

\* VTimeZone::get_offset, last_standard_before
last_standard_before(standard, date, local) ==
    IF standard.recur = << >> THEN standard.start
    ELSE last_before_extras(standard.rdates, standard.exdates,
            NewExtras(NewRecurIter(standard.recur[1], standard.start,
                                   max_count_of(standard.recur[1]), rule_until(standard))),
            IF local THEN date ELSE date + standard.offset_from, standard.start)

\* VTimeZone::get_offset, last_daylight_before
last_daylight_before(daylight, date, local) ==
    IF daylight.recur = << >> THEN daylight.start
    ELSE last_before(NewRecurIter(daylight.recur[1], daylight.start,
                                  max_count_of(daylight.recur[1]), rule_until(daylight)),
                     IF local THEN date ELSE date + daylight.offset_from, daylight.start)

\* VTimeZone::get_offset, both rules effective: the one whose last
\* occurrence is later, the daylight one on a tie
later_of(standard, daylight, s, d) ==
    IF s < 0 \/ d < 0 THEN [kind |-> "panic", v |-> 0]
    ELSE IF d < s THEN [kind |-> "offset", v |-> standard.offset_to]
    ELSE [kind |-> "offset", v |-> daylight.offset_to]

\* VTimeZone::get_offset, the match on the two effective rules
match_effective(effective_standard, effective_daylight, date, local) ==
    IF effective_standard # << >> /\ effective_daylight # << >> THEN
        later_of(effective_standard[1], effective_daylight[1],
                 last_standard_before(effective_standard[1], date, local),
                 last_daylight_before(effective_daylight[1], date, local))
    ELSE IF effective_standard # << >> THEN
        [kind |-> "offset", v |-> effective_standard[1].offset_to]
    ELSE IF effective_daylight # << >> THEN
        [kind |-> "offset", v |-> effective_daylight[1].offset_to]
    ELSE [kind |-> "panic", v |-> 0]

\* VTimeZone::get_offset: kind "offset" with the FixedOffset in seconds east
\* of UTC, or kind "panic"
get_offset(tz, date, local) ==
    match_effective(get_effective_offset(tz.standard, date, local),
                    get_effective_offset(tz.daylight, date, local), date, local)

\* the time d moved by the offset o that get_offset returned, east of UTC
\* for sign 1 and west for sign -1; -1 when get_offset panicked
shift_by(o, d, sign) == IF o.kind = "offset" THEN d + sign * o.v ELSE -1

\* Offseter: kind "fixed" is a FixedOffset, kind "zone" a VTimeZone.
\* to_instance: the UTC seconds of the local time d
to_instance(offseter, d) ==
    IF offseter.kind = "fixed" THEN fixed_to_instance(offseter.off, d)
    ELSE shift_by(get_offset(offseter.tz, d, TRUE), d, -1)

\* Offseter::from_instance: the local time of the UTC seconds d
from_instance(offseter, d) ==
    IF offseter.kind = "fixed" THEN fixed_from_instance(offseter.off, d)
    ELSE shift_by(get_offset(offseter.tz, d, FALSE), d, 1)

\* "FREQ=YEARLY;BYMONTH=m;BYDAY=nSU", the rule of a zone's transitions
YearlySunday(m, n) ==
    [BaseRule EXCEPT !.frequency = "Yearly", !.by_month = <<m>>, !.by_day = <<WD(<<n>>, 6)>>]

FixedOffset(off) == [kind |-> "fixed", off |-> off]

ZoneOffseter(tz) == [kind |-> "zone", tz |-> tz]

\* RecurRule::from_date (and the RecurIter the _with_extras constructors
\* build): an UntilUtc(t) becomes offseter.from_instance(t)
recur_iter_until(recur, date, local) ==
    IF local < 0
    THEN [NewRecurIter(recur, date, max_count_of(recur), << >>) EXCEPT !.status = "panic"]
    ELSE NewRecurIter(recur, date, max_count_of(recur),
                      IF recur.end_condition.type = "Until" THEN <<recur.end_condition.v>>
                      ELSE IF recur.end_condition.type = "UntilUtc" THEN <<local>>
                      ELSE << >>)

\* from_date that takes the instant of an UntilUtc as a local time
from_date_until_as_local(recur, date, offseter) ==
    recur_iter_until(recur, date,
                     IF recur.end_condition.type = "UntilUtc" THEN recur.end_condition.v ELSE 0)

from_date(recur, date, offseter) ==
    recur_iter_until(recur, date,
                     IF recur.end_condition.type = "UntilUtc"
                     THEN from_instance(offseter, recur.end_condition.v) ELSE 0)

-----------------------------------------------------------------------------
(* VCalendar and VEvent *)

\* VEvent as far as recur_iter reads it.  timings is the variant of Timings
\* ("None" when the event has no DTSTART; the Perioid* variants take the
\* branches of their plain counterparts with inner.start.start); start,
\* rdates and exdates are UTC seconds for "Utc" and local seconds otherwise
VEvent(timings, tzid, start, recur, rdates, exdates) ==
    [timings |-> timings, tzid |-> tzid, start |-> start, recur |-> recur,
     rdates |-> rdates, exdates |-> exdates]

\* calendar.timezones.iter().find(|tz| &tz.id == tzid)
find_tz(calendar, tzid) ==
    IF \E i \in DOMAIN calendar : calendar[i].id = tzid
    THEN <<calendar[CHOOSE i \in DOMAIN calendar :
                        /\ calendar[i].id = tzid
                        /\ \A j \in DOMAIN calendar : calendar[j].id = tzid => i <= j]>>
    ELSE << >>

\* IcalDateTime
IcalDateTime(kind, date, tzid) == [kind |-> kind, date |-> date, tzid |-> tzid]

\* VCalendar::get_time: kind "ok" with the instant, "err" or "panic"
resolved(instant) ==
    IF instant < 0 THEN [kind |-> "panic", v |-> 0] ELSE [kind |-> "ok", v |-> instant]

get_time_in(tz, date) ==
    IF tz = << >> THEN [kind |-> "err", v |-> 0]
    ELSE resolved(to_instance(ZoneOffseter(tz[1]), date))

get_time(calendar, d) ==
    IF d.kind = "Local" THEN [kind |-> "err", v |-> 0]
    ELSE IF d.kind = "Utc" THEN [kind |-> "ok", v |-> d.date]
    ELSE get_time_in(find_tz(calendar, d.tzid), d.date)

\* the Offseter VEvent::recur_iter hands to the recurrence engine
event_offseter(ev, calendar) ==
    IF ev.timings = "Utc" THEN FixedOffset(0) ELSE ZoneOffseter(find_tz(calendar, ev.tzid)[1])

\* the iterators VEvent::recur_iter returns, and its failures: kind "err"
\* is an Err, "panic" a panic while the iterator is built
ErrIter(msg) == [kind |-> "err", msg |-> msg]

PanicIter == [kind |-> "panic"]

\* std::iter::once(instant); an instant of -1 is a failed offset resolution
OnceIter(ev, instant) ==
    IF instant < 0 THEN PanicIter
    ELSE [kind |-> "once", pending |-> <<[naive |-> ev.start, inst |-> instant]>>]

\* the chain of from_date_with_extras ("dedup_filter") or of
\* from_naive_date_with_extras ("filter_dedup") over the RecurIter ri
ChainIter(ev, offseter, ri) ==
    IF ri.status # "ok" THEN PanicIter
    ELSE [kind |-> "chain", order |-> IF ev.timings = "Utc" THEN "dedup_filter" ELSE "filter_dedup",
          offseter |-> offseter, rdates |-> ev.rdates, exdates |-> ev.exdates,
          st |-> NewExtras(ri)]

\* the instant of a no-RRULE event: its DTSTART taken as a UTC instant
once_instant_unshifted(ev, calendar) == ev.start

\* VEvent::recur_iter without an RRULE: the instant of DTSTART
once_instant(ev, calendar) == to_instance(event_offseter(ev, calendar), ev.start)

\* VEvent::recur_iter
event_recur_iter(ev, calendar) ==
    IF ev.timings \notin {"Utc", "Tz"} THEN ErrIter("Not a datetime event")
    ELSE IF ev.timings = "Tz" /\ find_tz(calendar, ev.tzid) = << >>
    THEN ErrIter("Referenced timezone not in calendar")
    ELSE IF ev.recur = << >> THEN OnceIter(ev, once_instant(ev, calendar))
    ELSE ChainIter(ev, event_offseter(ev, calendar),
                   from_date(ev.recur[1], ev.start, event_offseter(ev, calendar)))

\* T::from_naive on the value r the chain let through: an item is the local
\* time the engine produced and the instant handed to the caller (for a UTC
\* event from_naive is applied before the merge and changes no value)
chain_item(it, r, instant) ==
    IF r.st.ri.status # "ok" \/ instant < 0 THEN [it |-> PanicIter, val |-> << >>]
    ELSE [it |-> [it EXCEPT !.st = r.st],
          val |-> IF r.val = << >> THEN << >> ELSE <<[naive |-> r.val[1], inst |-> instant]>>]

chain_mapped(it, r) ==
    chain_item(it, r, IF r.val = << >> \/ r.st.ri.status # "ok" THEN 0
                      ELSE to_instance(it.offseter, r.val[1]))

\* Iterator::next of the iterator VEvent::recur_iter returned
event_next(it) ==
    IF it.kind = "once" THEN
        [it |-> [it EXCEPT !.pending = << >>], val |-> it.pending]
    ELSE chain_mapped(it, extras_next(it.rdates, it.exdates, it.order, it.st))

-----------------------------------------------------------------------------
(* EventCollection *)

\* struct EventCollection; overrides is the HashMap as a sequence of entries
\* (key: DateOrDateTime, event: VEvent) with distinct keys
EventCollection(base_event, overrides) == [base_event |-> base_event, overrides |-> overrides]

\* the entries recur_iter keeps: those with a date-time key
keyed(coll) == {i \in DOMAIN coll.overrides : coll.overrides[i].key.kind # "Date"}

\* calendar.get_time(d) of the key of every entry
key_times(coll, calendar) ==
    [i \in DOMAIN coll.overrides |->
        IF i \in keyed(coll) THEN get_time(calendar, coll.overrides[i].key)
        ELSE [kind |-> "skipped", v |-> 0]]

\* the BTreeSet exceptions: the instants of all keys
exceptions_of(coll, times) == {times[i].v : i \in keyed(coll)}

\* exceptions.iter().max()
SetMax(S) == CHOOSE x \in S : \A y \in S : y <= x

\* the entries in S in the order of the BTreeMap: ascending in key instant
RECURSIVE by_key_time(_, _)
by_key_time(times, S) ==
    IF S = {} THEN << >>
    ELSE LET i == CHOOSE i \in S : \A j \in S : times[i].v <= times[j].v
         IN  <<i>> \o by_key_time(times, S \ {i})

\* EventCollection::recur_iter, the loop over the base event's instances
\* that takes the instants the base event yields out of to_remove; it breaks
\* at the first instant after max_date
RECURSIVE walk_base(_, _, _, _)
RECURSIVE walk_step(_, _, _, _)
walk_step(r, max_date, to_remove, fuel) ==
    IF r.it.kind = "panic" THEN [kind |-> "panic", v |-> {}]
    ELSE IF r.val = << >> THEN [kind |-> "ok", v |-> to_remove]
    ELSE IF max_date < r.val[1].inst THEN [kind |-> "ok", v |-> to_remove]
    ELSE walk_base(r.it, max_date, to_remove \ {r.val[1].inst}, fuel - 1)

walk_base(it, max_date, to_remove, fuel) ==
    IF fuel = 0 THEN [kind |-> "spin", v |-> {}]
    ELSE walk_step(event_next(it), max_date, to_remove, fuel)

\* itertools kmerge_by, one of its HeadTail: the override's position in
\* overrides, its iterator and the head pulled from it
head_tail(i, r) == [idx |-> i, it |-> r.it, head |-> r.val]

\* the first next() of an override's iterator, none when recur_iter failed
first_of(it) ==
    IF it.kind \in {"once", "chain"} THEN event_next(it) ELSE [it |-> it, val |-> << >>]

\* the HeadTails of the overrides that are left, in the order of their keys
live_heads(coll, calendar, live) ==
    [k \in DOMAIN live |->
        head_tail(live[k], first_of(event_recur_iter(coll.overrides[live[k]].event, calendar)))]

\* the iterator EventCollection::recur_iter returns: the base event's
\* iterator under the filter on exceptions, itertools' merge_by state (the
\* peeked head of the base side, which side is exhausted) and the kmerge_by
\* over the overrides
MergedIter(base, exceptions, ovs) ==
    IF \E k \in DOMAIN ovs : ovs[k].it.kind = "err" THEN ErrIter("override")
    ELSE IF \E k \in DOMAIN ovs : ovs[k].it.kind = "panic" THEN PanicIter
    ELSE [kind |-> "merged", base |-> base, a_peek |-> << >>, fused |-> << >>,
          exceptions |-> exceptions, ovs |-> ovs]

\* EventCollection::recur_iter after the loop over the base event
coll_after_walk(coll, calendar, times, base, walked) ==
    IF walked.kind # "ok" THEN [kind |-> walked.kind]
    ELSE MergedIter(base, exceptions_of(coll, times),
            live_heads(coll, calendar,
                by_key_time(times, {i \in keyed(coll) : times[i].v \notin walked.v})))

\* EventCollection::recur_iter once the keys are resolved; base is
\* self.base_event.recur_iter(calendar)
coll_with_base(coll, calendar, times, base) ==
    IF base.kind \in {"err", "panic"} THEN base
    ELSE coll_after_walk(coll, calendar, times, base,
            IF keyed(coll) = {} THEN [kind |-> "ok", v |-> {}]
            ELSE walk_base(base, SetMax(exceptions_of(coll, times)),
                           exceptions_of(coll, times), MaxWalk))

\* EventCollection::recur_iter
coll_with_times(coll, calendar, times) ==
    IF \E i \in keyed(coll) : times[i].kind = "err" THEN ErrIter("override key")
    ELSE IF \E i \in keyed(coll) : times[i].kind = "panic" THEN PanicIter
    ELSE coll_with_base(coll, calendar, times, event_recur_iter(coll.base_event, calendar))

coll_recur_iter(coll, calendar) == coll_with_times(coll, calendar, key_times(coll, calendar))

\* .filter(move |date| !exceptions.contains(date)) over the base iterator
RECURSIVE base_filtered(_, _, _)
RECURSIVE base_filtered_step(_, _, _)
base_filtered_step(r, exceptions, fuel) ==
    IF r.it.kind = "panic" \/ r.val = << >> THEN r
    ELSE IF r.val[1].inst \in exceptions THEN base_filtered(r.it, exceptions, fuel - 1)
    ELSE r

base_filtered(it, exceptions, fuel) ==
    IF fuel = 0 THEN [it |-> [kind |-> "spin"], val |-> << >>]
    ELSE base_filtered_step(event_next(it), exceptions, fuel)

\* kmerge_by(|a, b| a.0 < b.0): the position in ovs of the least head, 0
\* when every override is exhausted (among equal heads the model takes the
\* first; the collections of the model have none)
kmerge_pick(ovs) ==
    IF \A k \in DOMAIN ovs : ovs[k].head = << >> THEN 0
    ELSE CHOOSE k \in DOMAIN ovs :
            /\ ovs[k].head # << >>
            /\ \A j \in DOMAIN ovs : ovs[j].head # << >> =>
                    \/ ovs[k].head[1].inst < ovs[j].head[1].inst
                    \/ ovs[k].head[1].inst = ovs[j].head[1].inst /\ k <= j

\* the pair (instant, event) of the merged iterator: who is 0 for the base
\* event and the override's position in overrides otherwise
Pair(inst, who) == [inst |-> inst, who |-> who]

\* merge_by yields the head of the base side
take_base(st, a_res) ==
    [st |-> [st EXCEPT !.base = a_res.it, !.a_peek = << >>],
     val |-> IF a_res.val = << >> THEN << >> ELSE <<Pair(a_res.val[1].inst, 0)>>]

\* merge_by yields the head of the kmerge_by side, which pulls the next
\* value of the override it came from
take_override(st, a_res, k) ==
    [st |-> [st EXCEPT !.base = a_res.it, !.a_peek = <<a_res.val>>,
                       !.ovs[k] = head_tail(st.ovs[k].idx, event_next(st.ovs[k].it))],
     val |-> <<Pair(st.ovs[k].head[1].inst, st.ovs[k].idx)>>]

\* base_iter.merge_by(exception_iter, |a, b| a.0 < b.0): whether the base
\* side is taken
first_if_before(a, b) == a < b

\* merge_by, the side it takes ("a" the base side, "b" the kmerge_by side)
\* and its fused flag afterwards; a_res is the head of the base side, k the
\* pick of kmerge_by
merge_by_side(st, a_res, k) ==
    IF st.fused = <<FALSE>> THEN [side |-> "b", fused |-> st.fused]
    ELSE IF st.fused = <<TRUE>> THEN [side |-> "a", fused |-> st.fused]
    ELSE IF a_res.val # << >> /\ k # 0 THEN
        [side |-> IF first_if_before(a_res.val[1].inst, st.ovs[k].head[1].inst) THEN "a" ELSE "b",
         fused |-> << >>]
    ELSE IF a_res.val # << >> THEN [side |-> "a", fused |-> <<TRUE>>]
    ELSE IF k # 0 THEN [side |-> "b", fused |-> <<FALSE>>]
    ELSE [side |-> "none", fused |-> << >>]

\* merge_by, the next() of the side it takes
merge_by_take(st, a_res, k, side) ==
    IF a_res.it.kind \in {"panic", "spin"} THEN [st |-> [kind |-> a_res.it.kind], val |-> << >>]
    ELSE IF side = "a" THEN take_base(st, a_res)
    ELSE IF side = "b" /\ k # 0 THEN take_override(st, a_res, k)
    ELSE [st |-> [st EXCEPT !.base = a_res.it, !.a_peek = <<a_res.val>>], val |-> << >>]

merge_by_fused(r, fused) ==
    IF r.st.kind = "merged" THEN [r EXCEPT !.st.fused = fused] ELSE r

merge_by_heads(st, a_res, k) ==
    merge_by_fused(merge_by_take(st, a_res, k, merge_by_side(st, a_res, k).side),
                   merge_by_side(st, a_res, k).fused)

\* a panic of an override's iterator ends the merged iterator
merged_checked(r) ==
    IF r.st.kind = "merged" /\ \E k \in DOMAIN r.st.ovs : r.st.ovs[k].it.kind = "panic"
    THEN [st |-> PanicIter, val |-> << >>]
    ELSE r

\* Iterator::next of the iterator EventCollection::recur_iter returned
coll_next(st) ==
    merged_checked(
        merge_by_heads(st,
            IF st.a_peek # << >> THEN [it |-> st.base, val |-> st.a_peek[1]]
            ELSE IF st.fused = <<FALSE>> THEN [it |-> st.base, val |-> << >>]
            ELSE base_filtered(st.base, st.exceptions, MaxWalk),
            kmerge_pick(st.ovs)))

-----------------------------------------------------------------------------
(* State *)

VARIABLES
    rin,        \* RecurRule::from_date: its arguments (recur, start, offseter)
    riter,      \* the RecurIter from_date returned
    ryield,     \* the Options the calls of RecurIter::next returned, in order
    ev,         \* VEvent::recur_iter: the event it is called on
    eit,        \* the iterator (or the failure) VEvent::recur_iter returned
    eout,       \* the Options the calls of its next() returned, in order
    coll,       \* EventCollection::recur_iter: the collection it is called on
    cit,        \* the iterator (or the failure) EventCollection::recur_iter returned
    cout,       \* the Options the calls of its next() returned, in order
    zq,         \* a call on a VTimeZone: the operation, the zone and the date
    zres,       \* what the call returned, << >> before it has
    call,       \* a call of a function of the parsing layer: its name and argument
    ret         \* what that call returned, << >> before it has

rvars == <<rin, riter, ryield>>

evars == <<ev, eit, eout>>

cvars == <<coll, cit, cout>>

zvars == <<zq, zres>>

pvars == <<call, ret>>

vars == <<rvars, evars, cvars, zvars, pvars>>

\* the value of the variables of a part of the program that is not running
Idle == "idle"

RecurIdle == rin = Idle /\ riter = Idle /\ ryield = Idle

EventIdle == ev = Idle /\ eit = Idle /\ eout = Idle

CollIdle == coll = Idle /\ cit = Idle /\ cout = Idle

ZoneIdle == zq = Idle /\ zres = Idle

CallIdle == call = Idle /\ ret = Idle

-----------------------------------------------------------------------------
(* Inputs *)

DT(y, m, d, h, mi) == MakeDT(y, m, d, h * 3600 + mi * 60)

\* Europe/London of tests/recurid.rs, its two rules starting in 2019
London ==
    [id |-> "Europe/London",
     daylight |-> <<OffsetRule(0, 3600, DT(2019, 3, 31, 1, 0), <<YearlySunday(3, -1)>>)>>,
     standard |-> <<OffsetRule(3600, 0, DT(2019, 10, 27, 2, 0), <<YearlySunday(10, -1)>>)>>]

\* the VTimeZone of test_new_york
NewYork ==
    [id |-> "America/New_York",
     daylight |->
        <<OffsetRule(-18000, -14400, DT(1987, 4, 5, 2, 0),
                     <<[YearlySunday(4, 1) EXCEPT !.end_condition = UntilUtc(DT(2006, 4, 2, 7, 0))]>>),
          OffsetRule(-18000, -14400, DT(2007, 3, 11, 2, 0), <<YearlySunday(3, 2)>>)>>,
     standard |->
        <<OffsetRule(-14400, -18000, DT(1967, 10, 29, 2, 0),
                     <<[YearlySunday(10, -1) EXCEPT !.end_condition = UntilUtc(DT(2006, 10, 29, 6, 0))]>>),
          OffsetRule(-14400, -18000, DT(2007, 11, 4, 2, 0), <<YearlySunday(11, 1)>>)>>]

\* the recurrence rules of the model, without their end condition
RuleShapes ==
    { BaseRule,                                                  \* FREQ=DAILY
      [BaseRule EXCEPT !.interval = 2],                          \* FREQ=DAILY;INTERVAL=2
      [BaseRule EXCEPT !.by_day = <<WD(<< >>, 0)>>],             \* FREQ=DAILY;BYDAY=MO
      [BaseRule EXCEPT !.by_hour = <<9, 9, 17>>],                \* FREQ=DAILY;BYHOUR=9,9,17
      [BaseRule EXCEPT !.frequency = "Hourly", !.interval = 12], \* FREQ=HOURLY;INTERVAL=12
      [BaseRule EXCEPT !.frequency = "Weekly", !.interval = 2, !.week_start = 6,
                       !.by_day = <<WD(<< >>, 1)>>],     \* FREQ=WEEKLY;WKST=SU;INTERVAL=2;BYDAY=TU
      [BaseRule EXCEPT !.frequency = "Weekly", !.by_day = <<WD(<< >>, 0)>>],
                                                                 \* FREQ=WEEKLY;BYDAY=MO
      [BaseRule EXCEPT !.frequency = "Weekly",
                       !.by_day = <<WD(<< >>, 2), WD(<< >>, 4)>>],   \* FREQ=WEEKLY;BYDAY=WE,FR
      [BaseRule EXCEPT !.frequency = "Weekly",
                       !.by_day = <<WD(<< >>, 4), WD(<< >>, 2)>>],   \* FREQ=WEEKLY;BYDAY=FR,WE
      [BaseRule EXCEPT !.frequency = "Monthly"],                 \* FREQ=MONTHLY
      [BaseRule EXCEPT !.frequency = "Monthly", !.by_month_day = <<1>>],
                                                                 \* FREQ=MONTHLY;BYMONTHDAY=1
      [BaseRule EXCEPT !.frequency = "Monthly", !.by_day = <<WD(<<5>>, 0)>>],
                                                                 \* FREQ=MONTHLY;BYDAY=5MO
      [BaseRule EXCEPT !.frequency = "Monthly", !.by_day = <<WD(<< >>, 0), WD(<< >>, 2)>>,
                       !.by_set_pos = <<2, 1>>],     \* FREQ=MONTHLY;BYDAY=MO,WE;BYSETPOS=2,1
      [BaseRule EXCEPT !.frequency = "Yearly", !.by_month = <<4>>,
                       !.by_day = <<WD(<<-1>>, 6)>>],    \* FREQ=YEARLY;BYMONTH=4;BYDAY=-1SU
      [BaseRule EXCEPT !.frequency = "Yearly", !.by_month = <<4>>] }  \* FREQ=YEARLY;BYMONTH=4

\* the DTSTARTs of the model: a Tuesday morning and the last day of a January
Starts == { DT(2022, 7, 26, 10, 0), DT(2022, 1, 31, 9, 0) }

\* the end conditions of the model for a rule started at start
EndConditions(start) ==
    {BaseRule.end_condition}
        \cup {Count(n) : n \in 0..MaxCount}
        \cup {Until(start + 86400 * k) : k \in {0, 9}}
        \cup {UntilUtc(start + 86400 * 40 + 3600)}

\* the arguments of one call of RecurRule::from_date
RecurInput(recur, start, offseter) == [recur |-> recur, start |-> start, offseter |-> offseter]

\* recur_rule_until_utc: FREQ=YEARLY;BYMONTH=4;BYDAY=-1SU;UNTIL=19730429T070000Z
\* from 1967-04-30T02:00:00 with the zone of the tests as the offseter
UntilUtcFixture ==
    RecurInput([YearlySunday(4, -1) EXCEPT !.end_condition = UntilUtc(DT(1973, 4, 29, 7, 0))],
               DT(1967, 4, 30, 2, 0), ZoneOffseter(NewYork))

\* rules with UNTIL in UTC under an offseter that is not UTC: the fixture,
\* and daily and hourly rules whose UNTIL is, in local time, an instance, an
\* hour before one, or an hour after one
UntilUtcInputs ==
    {UntilUtcFixture}
    \cup {RecurInput([shape EXCEPT !.end_condition = UntilUtc(s + 2 * 86400 + k * 3600 - o.shift)],
                     s, o.offseter) :
            shape \in {BaseRule, [BaseRule EXCEPT !.frequency = "Hourly", !.interval = 12]},
            s \in Starts, k \in {-1, 0, 1},
            o \in {[offseter |-> FixedOffset(3600), shift |-> 3600],
                   [offseter |-> FixedOffset(-18000), shift |-> -18000],
                   [offseter |-> ZoneOffseter(London), shift |-> 3600]}}

\* rules whose anchor does not move (INTERVAL=0, which from_str accepts), so
\* that every fill expands to the dates of the fill before:
\* FREQ=DAILY;INTERVAL=0;BYHOUR=9,17 and FREQ=DAILY;INTERVAL=0;BYHOUR=9,9,17
RepeatInputs ==
    {RecurInput([BaseRule EXCEPT !.interval = 0, !.by_hour = h, !.end_condition = e], s, FixedOffset(0)) :
        h \in {<<9>>, <<9, 17>>, <<9, 9, 17>>}, s \in Starts, e \in {BaseRule.end_condition, Count(MaxCount)}}

\* rules whose filter sees the same hour or weekday at every anchor:
\* FREQ=HOURLY;INTERVAL=24;BYHOUR=9 and FREQ=DAILY;INTERVAL=7;BYDAY=MO
NeverInputs ==
    {RecurInput([shape EXCEPT !.end_condition = e], s, FixedOffset(0)) :
        shape \in {[BaseRule EXCEPT !.frequency = "Hourly", !.interval = 24, !.by_hour = <<9>>],
                   [BaseRule EXCEPT !.interval = 7, !.by_day = <<WD(<< >>, 0)>>]},
        s \in Starts, e \in {BaseRule.end_condition, Count(MaxCount)}}

RecurInputs ==
    {RecurInput([shape EXCEPT !.end_condition = e], s, FixedOffset(0)) :
        <<shape, s, e>> \in {<<sh, st, en>> \in RuleShapes \X Starts \X UNION {EndConditions(st) : st \in Starts} :
                                en \in EndConditions(st)}}
    \cup UntilUtcInputs \cup RepeatInputs \cup NeverInputs

-----------------------------------------------------------------------------
(* RecurRule::from_date and RecurIter::next *)

\* the values among the Options ys
Somes(ys) == SelectSeq(ys, LAMBDA y : y # << >>)

Init ==
    /\ rin \in RecurInputs
    /\ riter = from_date(rin.recur, rin.start, rin.offseter)
    /\ ryield = << >>
    /\ EventIdle /\ CollIdle /\ ZoneIdle /\ CallIdle

\* the caller's record of a call that returned r
Returned(r) ==
    /\ r.it.status # "spin"
    /\ riter' = r.it
    /\ ryield' = IF r.it.status = "ok" THEN Append(ryield, r.val) ELSE ryield

\* one call of RecurIter::next that returns
RecurNext ==
    /\ Len(ryield) < (IF rin = UntilUtcFixture THEN MaxYield ELSE MaxCount + 3)
    /\ riter.status = "ok"
    /\ Returned(recur_next(riter))
    /\ UNCHANGED <<rin, evars, cvars, zvars, pvars>>

\* the caller's view of a call whose while loop does not fill the queue
Spinning(r) ==
    /\ r.it.status = "spin"
    /\ riter' = r.it
    /\ ryield' = ryield

\* one call of RecurIter::next that does not return
RecurSpin ==
    /\ Len(ryield) < (IF rin = UntilUtcFixture THEN MaxYield ELSE MaxCount + 3)
    /\ riter.status = "ok"
    /\ Spinning(recur_next(riter))
    /\ UNCHANGED <<rin, evars, cvars, zvars, pvars>>

Next == RecurNext \/ RecurSpin

Spec == Init /\ [][Next]_vars

-----------------------------------------------------------------------------
(* Properties of RecurIter *)

\* C1: an iterator built from a rule with COUNT=n never yields more than n
\* values, and when it reports the end it has yielded exactly n (the
\* expansion of every rule of the model that returns has no last instance)
CountYieldsExactly ==
    rin.recur.end_condition.type = "Count" =>
        /\ Len(Somes(ryield)) <= rin.recur.end_condition.v
        /\ Contains(ryield, << >>) => Len(Somes(ryield)) = rin.recur.end_condition.v

\* a rule with COUNT=n, n >= 2, has yielded n values and then reported the end
CountReached ==
    /\ rin.recur.end_condition.type = "Count"
    /\ rin.recur.end_condition.v >= 2
    /\ Len(Somes(ryield)) = rin.recur.end_condition.v
    /\ Contains(ryield, << >>)

\* the first n values of the RecurIter it
RECURSIVE rule_values(_, _)
RECURSIVE rule_values_step(_, _)
rule_values_step(r, n) ==
    IF r.it.status # "ok" \/ r.val = << >> THEN << >>
    ELSE r.val \o rule_values(r.it, n - 1)

rule_values(it, n) == IF n = 0 THEN << >> ELSE rule_values_step(recur_next(it), n)

\* the Options ys up to the first None: the sequence a for loop sees
UpToEnd(ys) ==
    IF Contains(ys, << >>)
    THEN SubSeq(ys, 1, CHOOSE i \in DOMAIN ys : ys[i] = << >> /\ \A j \in 1..(i - 1) : ys[j] # << >>)
    ELSE ys

\* ys, the Options an iterator returned, are values of free in order, all
\* at or before bound, and the end came at the first value of free after bound
EndsAfter(ys, free, bound) ==
    /\ Len(Somes(ys)) <= Len(free)
    /\ \A i \in 1..Len(Somes(ys)) : Somes(ys)[i] = <<free[i]>> /\ free[i] <= bound
    /\ Contains(ys, << >>) =>
            /\ Len(Somes(ys)) < Len(free)
            /\ free[Len(Somes(ys)) + 1] > bound

\* C28: every call of next() on a RecurIter returns, with an instance or
\* with the end of the sequence, after finitely many (here MaxFill) anchors
EveryNextReturns == riter.status # "spin"

\* C29: once next() has reported the end of the sequence every later call
\* reports the end as well, and a rule with COUNT=n never yields more than
\* n values
EndIsFinal ==
    /\ \A i \in DOMAIN ryield : \A j \in DOMAIN ryield : (i < j /\ ryield[i] = << >>) => ryield[j] = << >>
    /\ rin.recur.end_condition.type = "Count" => Len(Somes(ryield)) <= rin.recur.end_condition.v

\* C30: every value the RecurIter of a rule started at s yields is at or
\* after s, and the values it yields are strictly increasing
YieldsAscendFromStart ==
    /\ \A i \in DOMAIN ryield : ryield[i] = << >> \/ ryield[i][1] >= rin.start
    /\ \A i \in DOMAIN ryield : \A j \in DOMAIN ryield :
            (i < j /\ ryield[i] # << >> /\ ryield[j] # << >>) => ryield[i][1] < ryield[j][1]

\* C21: up to its first None a RecurIter never yields the value it yielded
\* on the call before: duplicates that are neighbours in one date set are
\* collapsed and the value yielded last is left out of the next queue
NoValueTwiceInARow ==
    \A i \in 1..(Len(UpToEnd(ryield)) - 1) :
        UpToEnd(ryield)[i] = << >> \/ UpToEnd(ryield)[i] # UpToEnd(ryield)[i + 1]

\* the iterator of a rule whose every fill expands to 09:00, 09:00 and
\* 17:00 of the same day has yielded 09:00, 17:00 and 09:00 again
RepeatedFillYielded ==
    /\ rin.recur.interval = 0 /\ rin.recur.by_hour = <<9, 9, 17>>
    /\ Len(ryield) >= 3
    /\ ryield[1] = ryield[3] /\ ryield[1] # << >> /\ ryield[2] # << >>

\* C11: up to its first None the iterator of a rule with UNTIL in UTC yields
\* the values the rule yields without an end condition as long as they are
\* at or before the local time the offseter gives for the UNTIL instant (a
\* value equal to it is yielded), and the None comes at the first value
\* after that local time
UntilUtcInclusive ==
    (rin.recur.end_condition.type = "UntilUtc" /\ riter.status = "ok") =>
        EndsAfter(UpToEnd(ryield),
                  rule_values(from_date([rin.recur EXCEPT !.end_condition = BaseRule.end_condition],
                                        rin.start, rin.offseter), Len(ryield)),
                  from_instance(rin.offseter, rin.recur.end_condition.v))

\* recur_rule_until_utc has run: seven values, the last one equal to the
\* local time of UNTIL, and then the end
UntilUtcFixtureDone ==
    /\ rin = UntilUtcFixture
    /\ from_instance(rin.offseter, rin.recur.end_condition.v) = DT(1973, 4, 29, 2, 0)
    /\ ryield = << <<DT(1967, 4, 30, 2, 0)>>, <<DT(1968, 4, 28, 2, 0)>>, <<DT(1969, 4, 27, 2, 0)>>,
                   <<DT(1970, 4, 26, 2, 0)>>, <<DT(1971, 4, 25, 2, 0)>>, <<DT(1972, 4, 30, 2, 0)>>,
                   <<DT(1973, 4, 29, 2, 0)>>, << >> >>

-----------------------------------------------------------------------------
(* VEvent::recur_iter and the iterator it returns *)

\* the VCalendar of the events: its timezones
Calendar == <<London>>

\* DTSTART of the events: Friday 2022-03-25 09:00, two days before the
\* clocks of Europe/London go forward
EventStart == DT(2022, 3, 25, 9, 0)

Days(n) == 86400 * n

\* the RRULEs of the events
EventRules ==
    { << >>,
      <<BaseRule>>,
      <<[BaseRule EXCEPT !.end_condition = Count(MaxCount - 1)]>>,
      <<[BaseRule EXCEPT !.end_condition = Until(EventStart + Days(2))]>>,
      <<[BaseRule EXCEPT !.end_condition = UntilUtc(EventStart + Days(2))]>>,
      <<[BaseRule EXCEPT !.frequency = "Weekly", !.by_day = <<WD(<< >>, 4), WD(<< >>, 2)>>]>> }

\* the RDATE lists of the events: an instance of the daily rule, a time
\* between two instances, a time after UNTIL, and a list as a calendar file
\* may give it, later date first
RdateLists ==
    { << >>, <<EventStart + Days(1)>>, <<EventStart + 43200>>, <<EventStart + Days(5)>>,
      <<EventStart + Days(3), EventStart + Days(1)>> }

ExdateLists == { << >>, <<EventStart>>, <<EventStart + Days(1)>>, <<EventStart + Days(5)>> }

EventInputs ==
    {VEvent(t, "Europe/London", EventStart, r, rd, ex) :
        t \in {"Utc", "Tz"}, r \in EventRules, rd \in RdateLists, ex \in ExdateLists}
    \cup {VEvent(t, "", EventStart, r, << >>, << >>) : t \in {"Date", "Local"}, r \in EventRules}
    \cup {VEvent("None", "", 0, r, << >>, << >>) : r \in EventRules}
    \cup {VEvent("Tz", "Europe/Paris", EventStart, r, << >>, << >>) : r \in EventRules}
    \cup {VEvent("Tz", "Europe/London", d, r, << >>, << >>) :
                d \in {DT(2019, 1, 1, 9, 0), DT(2022, 7, 1, 9, 0)}, r \in EventRules}

NotCalled == [kind |-> "new"]

InitEvent ==
    /\ ev \in EventInputs
    /\ eit = NotCalled
    /\ eout = << >>
    /\ RecurIdle /\ CollIdle /\ ZoneIdle /\ CallIdle

\* event.recur_iter(calendar)
EventRecurIter ==
    /\ eit = NotCalled
    /\ eit' = event_recur_iter(ev, Calendar)
    /\ UNCHANGED <<ev, eout, rvars, cvars, zvars, pvars>>

\* the caller's record of a call of next() that returned r
EventReturned(r) ==
    /\ eit' = r.it
    /\ eout' = IF r.it.kind = "panic" THEN eout ELSE Append(eout, r.val)

\* one call of next() on the iterator, until it has returned None
EventNext ==
    /\ eit.kind \in {"once", "chain"}
    /\ Len(eout) < MaxOut
    /\ IF eout = << >> THEN TRUE ELSE Last(eout) # << >>
    /\ EventReturned(event_next(eit))
    /\ UNCHANGED <<ev, rvars, cvars, zvars, pvars>>

NextEvent == EventRecurIter \/ EventNext

SpecEvent == InitEvent /\ [][NextEvent]_vars

-----------------------------------------------------------------------------
(* Properties of VEvent::recur_iter *)

\* the values among the Options the iterator returned
Yielded == {i \in DOMAIN eout : eout[i] # << >>}

\* the rule of the event has an UNTIL; its local image is the bound the
\* RecurIter compares with
HasUntil == eit.kind = "chain" /\ eit.st.ri.until # << >>

\* C2 as stated: with UNTIL=u every instant the iterator of the event yields,
\* RDATEs included, is at or before u in the frame the rule compares in
UntilBoundsEveryInstant ==
    HasUntil => \A i \in Yielded : eout[i][1].naive <= eit.st.ri.until[1]

\* C2: with UNTIL=u every instant the iterator of the event yields that is
\* not one of the event's RDATEs is at or before u in the frame the rule
\* compares in (the local time of the event); an RDATE after u is yielded
UntilBoundsRuleInstants ==
    HasUntil => \A i \in Yielded :
        ~Contains(ev.rdates, eout[i][1].naive) => eout[i][1].naive <= eit.st.ri.until[1]

\* the rule has yielded the instance that falls on UNTIL, and the iterator
\* has then yielded an RDATE after UNTIL and reported the end
UntilReached ==
    /\ HasUntil
    /\ \E i \in Yielded : eout[i][1].naive = eit.st.ri.until[1]
    /\ \E i \in Yielded : eout[i][1].naive > eit.st.ri.until[1]
    /\ Contains(eout, << >>)

\* C4 as stated: no exception date of the event is ever yielded by its
\* iterator
ExdatesNeverYielded ==
    eit.kind \in {"once", "chain"} =>
        \A i \in Yielded : ~Contains(ev.exdates, eout[i][1].naive)

\* C4: no exception date of an event with an RRULE is ever yielded by its
\* iterator, whether the rule generated it or an RDATE added it (an event
\* without an RRULE yields its DTSTART, EXDATE or not)
ExdatesNeverYieldedWithRule ==
    (eit.kind = "chain" /\ ev.recur # << >>) =>
        \A i \in Yielded : ~Contains(ev.exdates, eout[i][1].naive)

\* the iterator of an event with an RRULE has gone past an exception date
\* that is an instance of the rule and an RDATE as well
ExdatePassed ==
    /\ eit.kind = "chain"
    /\ ev.exdates # << >>
    /\ Contains(ev.rdates, ev.exdates[1])
    /\ ev.exdates[1] = ev.start + Days(1)
    /\ \E i \in Yielded : eout[i][1].naive > ev.exdates[1]

\* C5 as stated, its "once": no RDATE of the event is yielded twice
RdatesYieldedOnce ==
    eit.kind = "chain" =>
        \A k \in DOMAIN ev.rdates :
            Cardinality({i \in Yielded : eout[i][1].naive = ev.rdates[k]}) <= 1

\* DTSTART of the event as an IcalDateTime
DtStart ==
    IcalDateTime(IF ev.timings = "Utc" THEN "Utc" ELSE IF ev.timings = "Tz" THEN "TZ" ELSE "Local",
                 ev.start, ev.tzid)

\* the iterator has so far returned what std::iter::once(instant) returns
OnceOf(instant) ==
    /\ Len(eout) <= 2
    /\ Len(eout) >= 1 => eout[1] # << >> /\ eout[1][1].inst = instant
    /\ Len(eout) = 2 => eout[2] = << >>

\* C6 as stated: for every event without an RRULE recur_iter returns an
\* iterator that yields DTSTART as an instant and nothing else
NoRuleYieldsStart ==
    (ev.recur = << >> /\ eit # NotCalled) =>
        /\ eit.kind = "once"
        /\ OnceOf(get_time(Calendar, DtStart).v)

\* C6: for an event without an RRULE whose DTSTART is a UTC date-time, or a
\* date-time of a zone of the calendar that has an offset for it, recur_iter
\* returns an iterator that yields DTSTART as an instant and nothing else;
\* for an event without DTSTART, with a DATE or a floating DTSTART or with
\* a TZID the calendar lacks it returns an error
NoRuleDateTimeYieldsStart ==
    (ev.recur = << >> /\ eit # NotCalled) =>
        IF ev.timings \in {"Utc", "Tz"} /\ get_time(Calendar, DtStart).kind = "ok"
        THEN eit.kind = "once" /\ OnceOf(get_time(Calendar, DtStart).v)
        ELSE IF ev.timings \in {"Utc", "Tz"} /\ get_time(Calendar, DtStart).kind = "panic"
        THEN eit.kind = "panic"
        ELSE eit.kind = "err"

\* an event of Europe/London without an RRULE, in summer time, has yielded
\* its one instant and reported the end
NoRuleDone ==
    /\ ev.recur = << >>
    /\ ev.timings = "Tz"
    /\ Len(eout) = 2
    /\ eout[1] # << >>
    /\ eout[1][1].inst = ev.start - 3600

-----------------------------------------------------------------------------
(* EventCollection::recur_iter and the iterator it returns *)

\* DTSTART of the base events: Tuesday 2022-02-08 15:30, as in
\* tests/recurid.rs
CollStart == DT(2022, 2, 8, 15, 30)

\* the base events: the fortnightly event of tests/recurid.rs, a daily
\* event in UTC, a weekly event with BYDAY=FR,WE, a daily event with two
\* RDATEs given later date first, an event without a rule, a floating event
BaseEvents ==
    { VEvent("Tz", "Europe/London", CollStart,
             <<[BaseRule EXCEPT !.frequency = "Weekly", !.interval = 2]>>, << >>, << >>),
      VEvent("Utc", "", CollStart, <<BaseRule>>, << >>, << >>),
      VEvent("Utc", "", CollStart,
             <<[BaseRule EXCEPT !.frequency = "Weekly", !.by_day = <<WD(<< >>, 4), WD(<< >>, 2)>>]>>,
             << >>, << >>),
      VEvent("Utc", "", CollStart, <<BaseRule>>,
             <<CollStart + Days(2) + 3600, CollStart + Days(1) + 3600>>, << >>),
      VEvent("Utc", "", CollStart, << >>, << >>, << >>),
      VEvent("Local", "", CollStart, <<BaseRule>>, << >>, << >>) }

\* an override of the base event b: its RECURRENCE-ID is key_off after
\* DTSTART of b, its own DTSTART start_off after that; it has no rule
Override(b, key_off, start_off) ==
    [key |-> IcalDateTime(IF b.timings = "Utc" THEN "Utc" ELSE "TZ", b.start + key_off, b.tzid),
     event |-> VEvent(IF b.timings = "Local" THEN "Tz" ELSE b.timings, b.tzid,
                      b.start + key_off + start_off, << >>, << >>, << >>)]

\* an override with a DATE key
DateOverride(b) ==
    [key |-> IcalDateTime("Date", b.start, ""),
     event |-> VEvent("Date", "", b.start, << >>, << >>, << >>)]

\* the keys are the second or the third instance of the daily and of the
\* fortnightly event or a time that is no instance; the override keeps the
\* time, is an hour late, or moves onto the next instance
KeyOffsets == {Days(1), Days(2), Days(14), 7200}

StartOffsets == {0, 3600, Days(1), Days(14)}

OverrideLists(b) ==
    { << >>, <<DateOverride(b)>> }
    \cup {<<Override(b, k, s)>> : k \in KeyOffsets, s \in StartOffsets}
    \cup {<<Override(b, Days(2), s), Override(b, Days(1), 3600)>> : s \in StartOffsets}

CollInputs == {EventCollection(b, o) : <<b, o>> \in {<<b, o>> \in BaseEvents \X UNION {OverrideLists(b) : b \in BaseEvents} : o \in OverrideLists(b)}}

InitColl ==
    /\ coll \in CollInputs
    /\ cit = NotCalled
    /\ cout = << >>
    /\ RecurIdle /\ EventIdle /\ ZoneIdle /\ CallIdle

\* collection.recur_iter(calendar)
CollRecurIter ==
    /\ cit = NotCalled
    /\ cit' = coll_recur_iter(coll, Calendar)
    /\ UNCHANGED <<coll, cout, rvars, evars, zvars, pvars>>

\* the caller's record of a call of next() that returned r
CollReturned(r) ==
    /\ cit' = r.st
    /\ cout' = IF r.st.kind = "merged" THEN Append(cout, r.val) ELSE cout

\* one call of next() on the merged iterator, until it has returned None
CollNext ==
    /\ cit.kind = "merged"
    /\ Len(cout) < MaxOut
    /\ IF cout = << >> THEN TRUE ELSE Last(cout) # << >>
    /\ CollReturned(coll_next(cit))
    /\ UNCHANGED <<coll, rvars, evars, zvars, pvars>>

NextColl == CollRecurIter \/ CollNext

SpecColl == InitColl /\ [][NextColl]_vars

-----------------------------------------------------------------------------
(* Properties of EventCollection::recur_iter *)

\* the positions of cout that hold a pair
Emitted == {i \in DOMAIN cout : cout[i] # << >>}

\* the instants among the first n values of the event iterator it
RECURSIVE instants(_, _)
RECURSIVE instants_step(_, _)
instants_step(r, n) ==
    IF r.it.kind = "panic" \/ r.val = << >> THEN {}
    ELSE {r.val[1].inst} \cup instants(r.it, n - 1)

instants(it, n) ==
    IF n = 0 \/ it.kind \notin {"once", "chain"} THEN {}
    ELSE instants_step(event_next(it), n)

\* the overrides whose key is one of the instants base
keyed_on(times, base) == {i \in keyed(coll) : times[i].kind = "ok" /\ times[i].v \in base}

\* C3 as stated: the pairs the merged iterator yields are non-decreasing in
\* instant, whatever the order of the base rule's BYDAY list, the RDATE list
\* and the overrides
MergedNonDecreasing ==
    \A i, j \in Emitted : i < j => cout[i][1].inst <= cout[j][1].inst

\* C7 as stated: no pair of the base event has the key of an override as its
\* instant, and every override whose key is an instance of the base event
\* takes part in the merge in that instance's place
OverrideReplacesBase ==
    cit.kind = "merged" =>
        /\ \A i \in Emitted : cout[i][1].who = 0 => cout[i][1].inst \notin cit.exceptions
        /\ \A i \in keyed_on(key_times(coll, Calendar),
                             instants(event_recur_iter(coll.base_event, Calendar), MaxOut)) :
                \E k \in DOMAIN cit.ovs : cit.ovs[k].idx = i

\* C8 as stated: of a pair of the base event and a pair of an override with
\* the same instant, the one of the base event is yielded first
BaseBeforeOverrideOnTie ==
    \A i, j \in Emitted :
        (i < j /\ cout[i][1].inst = cout[j][1].inst /\ cout[j][1].who = 0) => cout[i][1].who = 0

\* the instants the event iterator it yields up to the first one after
\* max_date, n values at most
RECURSIVE instants_upto(_, _, _)
RECURSIVE instants_upto_step(_, _, _)
instants_upto_step(r, max_date, n) ==
    IF r.it.kind = "panic" \/ r.val = << >> THEN {}
    ELSE IF r.val[1].inst > max_date THEN {}
    ELSE {r.val[1].inst} \cup instants_upto(r.it, max_date, n - 1)

instants_upto(it, max_date, n) ==
    IF n = 0 \/ it.kind \notin {"once", "chain"} THEN {}
    ELSE instants_upto_step(event_next(it), max_date, n)

\* the overrides whose key is none of the instants seen
keyed_off(times, seen) == {i \in keyed(coll) : times[i].kind = "ok" /\ times[i].v \notin seen}

\* no pair of an override in dropped has been yielded, and the key of none
\* of them is one of the instants base
NoTraceOf(times, dropped, base) ==
    \A i \in dropped :
        /\ \A e \in Emitted : cout[e][1].who # i
        /\ times[i].v \notin base

\* C22 as stated: an override whose key is none of the instants the base
\* event yields up to the largest key is left out of the merge, and the base
\* event has no instance at its key that the filter on the keys could take
\* away
DroppedOverrideLeavesNoTrace ==
    (cit.kind = "merged" /\ keyed(coll) # {}) =>
        NoTraceOf(key_times(coll, Calendar),
                  keyed_off(key_times(coll, Calendar),
                            instants_upto(event_recur_iter(coll.base_event, Calendar),
                                          SetMax(exceptions_of(coll, key_times(coll, Calendar))), MaxWalk)),
                  instants(event_recur_iter(coll.base_event, Calendar), MaxOut))

-----------------------------------------------------------------------------
(* VTimeZone::get_offset and the Offseter of a VTimeZone *)

\* Europe/London with one more transition on each side in 2021, given as
\* RDATEs: to standard time on 1 May, to daylight time on 1 June
LondonRdates ==
    [id |-> "Europe/London/rdates",
     daylight |-> <<[London.daylight[1] EXCEPT !.rdates = <<DT(2021, 6, 1, 1, 0)>>]>>,
     standard |-> <<[London.standard[1] EXCEPT !.rdates = <<DT(2021, 5, 1, 2, 0)>>]>>]

\* Europe/London whose daylight rule has the transition of 2021 as an EXDATE
LondonExdate ==
    [id |-> "Europe/London/exdate",
     daylight |-> <<[London.daylight[1] EXCEPT !.exdates = <<DT(2021, 3, 28, 1, 0)>>]>>,
     standard |-> London.standard]

\* a zone without daylight time: one STANDARD rule without a recurrence
Kolkata ==
    [id |-> "Asia/Kolkata",
     daylight |-> << >>,
     standard |-> <<OffsetRule(19800, 19800, DT(2019, 1, 1, 0, 0), << >>)>>]

\* the dates asked of a zone: those test_new_york asserts and one between
\* the UNTIL of the old rules and the start of the new ones; for the other
\* zones a date before every rule, one with only the daylight rule started,
\* and dates on either side of the transitions of 2021 and 2022
ZoneDates(tz) ==
    IF tz = NewYork
    THEN { DT(1997, 11, 1, 0, 0), DT(1998, 7, 23, 0, 0), DT(1998, 1, 1, 0, 0),
           DT(2020, 7, 23, 0, 0), DT(2020, 1, 1, 0, 0), DT(2006, 12, 1, 0, 0) }
    ELSE { DT(2018, 6, 1, 0, 0), DT(2019, 6, 1, 0, 0), DT(2020, 1, 15, 0, 0),
           DT(2021, 4, 15, 0, 0), DT(2021, 5, 15, 0, 0), DT(2021, 7, 1, 0, 0),
           DT(2022, 3, 27, 1, 30) }

Zones == { NewYork, London, LondonRdates, LondonExdate, Kolkata }

\* a call on a zone
ZoneCall(op, tz, date, local) == [op |-> op, tz |-> tz, date |-> date, local |-> local]

ZoneInputs ==
    UNION { {ZoneCall("get_offset", tz, d, l) : d \in ZoneDates(tz), l \in BOOLEAN}
            \cup {ZoneCall("to_instance", tz, d, TRUE) : d \in ZoneDates(tz)}
            \cup {ZoneCall("from_instance", tz, d, FALSE) : d \in ZoneDates(tz)}
          : tz \in Zones }

InitZone ==
    /\ zq \in ZoneInputs
    /\ zres = << >>
    /\ RecurIdle /\ EventIdle /\ CollIdle /\ CallIdle

\* timezone.get_offset(date, local)
GetOffset ==
    /\ zq.op = "get_offset"
    /\ zres = << >>
    /\ zres' = <<get_offset(zq.tz, zq.date, zq.local)>>
    /\ UNCHANGED <<zq, rvars, evars, cvars, pvars>>

\* timezone.to_instance(d)
ToInstance ==
    /\ zq.op = "to_instance"
    /\ zres = << >>
    /\ zres' = <<resolved(to_instance(ZoneOffseter(zq.tz), zq.date))>>
    /\ UNCHANGED <<zq, rvars, evars, cvars, pvars>>

\* timezone.from_instance(d)
FromInstance ==
    /\ zq.op = "from_instance"
    /\ zres = << >>
    /\ zres' = <<resolved(from_instance(ZoneOffseter(zq.tz), zq.date))>>
    /\ UNCHANGED <<zq, rvars, evars, cvars, pvars>>

NextZone == GetOffset \/ ToInstance \/ FromInstance

SpecZone == InitZone /\ [][NextZone]_vars

-----------------------------------------------------------------------------
(* Properties of VTimeZone::get_offset *)

\* get_offset has returned or panicked
OffsetAsked == zq.op = "get_offset" /\ zres # << >>

\* the rule of a list of the zone that is effective for the date asked
EffectiveOf(slice) == get_effective_offset(slice, zq.date, zq.local)

\* the offsets the rule with the later last occurrence leads to, s and d
\* being the last occurrences of the standard and of the daylight rule;
\* either of the two when the occurrences are the same
LaterOccurrence(standard, daylight, s, d) ==
    IF s < d THEN {daylight.offset_to}
    ELSE IF d < s THEN {standard.offset_to}
    ELSE {standard.offset_to, daylight.offset_to}

\* C9 as stated: with an effective rule on both sides get_offset returns the
\* offset_to of the rule whose last occurrence at or before the date is the
\* later one, the occurrences of both rules being taken the same way: of
\* both with their RDATEs and EXDATEs, or of both from the RRULE alone
LaterLastOccurrenceWins ==
    (OffsetAsked /\ zres[1].kind = "offset"
        /\ EffectiveOf(zq.tz.standard) # << >> /\ EffectiveOf(zq.tz.daylight) # << >>) =>
            zres[1].v \in
                LaterOccurrence(EffectiveOf(zq.tz.standard)[1], EffectiveOf(zq.tz.daylight)[1],
                    last_standard_before(EffectiveOf(zq.tz.standard)[1], zq.date, zq.local),
                    last_standard_before(EffectiveOf(zq.tz.daylight)[1], zq.date, zq.local))
                \cup
                LaterOccurrence(EffectiveOf(zq.tz.standard)[1], EffectiveOf(zq.tz.daylight)[1],
                    last_daylight_before(EffectiveOf(zq.tz.standard)[1], zq.date, zq.local),
                    last_daylight_before(EffectiveOf(zq.tz.daylight)[1], zq.date, zq.local))

\* C10 as stated: with an effective rule on one side only get_offset returns
\* that rule's offset_to, and with none on either side the caller gets an
\* error
OneSideOrError ==
    OffsetAsked =>
        /\ (EffectiveOf(zq.tz.standard) # << >> /\ EffectiveOf(zq.tz.daylight) = << >>) =>
                zres[1] = [kind |-> "offset", v |-> EffectiveOf(zq.tz.standard)[1].offset_to]
        /\ (EffectiveOf(zq.tz.standard) = << >> /\ EffectiveOf(zq.tz.daylight) # << >>) =>
                zres[1] = [kind |-> "offset", v |-> EffectiveOf(zq.tz.daylight)[1].offset_to]
        /\ (EffectiveOf(zq.tz.standard) = << >> /\ EffectiveOf(zq.tz.daylight) = << >>) =>
                zres[1].kind = "err"

-----------------------------------------------------------------------------
(* parser.rs: strip_folds *)

\* length of the longest text handed to strip_folds
MaxLen == 4

\* the characters of the texts: carriage return, line feed, tab, space and
\* a character that is none of them; a text is a sequence of characters
CR == "CR"

LF == "LF"

FoldSpace == {"TAB", "SP"}

Chars == {CR, LF, "x"} \cup FoldSpace

\* the texts of n characters of the set chars
RECURSIVE Texts(_, _)
Texts(chars, n) ==
    IF n = 0 THEN {<< >>}
    ELSE {Append(t, c) : t \in Texts(chars, n - 1), c \in chars}

\* the text s from its n-th character on
From(s, n) == SubSeq(s, n, Len(s))

\* strip_folds that erases every line feed, whatever follows it
RECURSIVE strip_line_feeds(_)
strip_line_feeds(s) ==
    IF s = << >> THEN << >>
    ELSE IF s[1] = LF THEN strip_line_feeds(Tail(s))
    ELSE <<s[1]>> \o strip_line_feeds(Tail(s))

\* strip_folds: Regex::new(r"\r?\n[\t ]").replace_all(s, ""), the matches
\* taken leftmost first and never overlapping
RECURSIVE strip_folds(_)
strip_folds(s) ==
    IF s = << >> THEN << >>
    ELSE IF Len(s) >= 3 /\ s[1] = CR /\ s[2] = LF /\ s[3] \in FoldSpace
    THEN strip_folds(From(s, 4))
    ELSE IF Len(s) >= 2 /\ s[1] = LF /\ s[2] \in FoldSpace
    THEN strip_folds(From(s, 3))
    ELSE <<s[1]>> \o strip_folds(Tail(s))

\* a call of a function of the parsing layer
Call(op, arg) == [op |-> op, arg |-> arg]

FoldInputs == {Call("strip_folds", t) : t \in UNION {Texts(Chars, n) : n \in 0..MaxLen}}

InitFold ==
    /\ call \in FoldInputs
    /\ ret = << >>
    /\ RecurIdle /\ EventIdle /\ CollIdle /\ ZoneIdle

\* strip_folds(s)
StripFolds ==
    /\ call.op = "strip_folds"
    /\ ret = << >>
    /\ ret' = <<strip_folds(call.arg)>>
    /\ UNCHANGED <<call, rvars, evars, cvars, zvars>>

NextFold == StripFolds

SpecFold == InitFold /\ [][NextFold]_vars

-----------------------------------------------------------------------------
(* Properties of strip_folds *)

\* the positions of s where a line feed is followed by a tab or a space
Folds(s) == {i \in DOMAIN s : s[i] = LF /\ i < Len(s) /\ s[i + 1] \in FoldSpace}

\* the positions of s a fold takes away: the line feed, the one tab or space
\* after it, and the carriage return before it
Folded(s) ==
    Folds(s) \cup {i + 1 : i \in Folds(s)} \cup {i - 1 : i \in {j \in Folds(s) : j > 1 /\ s[j - 1] = CR}}

\* the characters of s at the positions that are not in gone, in order
RECURSIVE Without(_, _, _)
Without(s, gone, i) ==
    IF i > Len(s) THEN << >>
    ELSE (IF i \in gone THEN << >> ELSE <<s[i]>>) \o Without(s, gone, i + 1)

\* C12: strip_folds returns its argument without the line breaks (CRLF or
\* LF) that a tab or a space follows and without that one tab or space;
\* every other character, a line break followed by anything else included,
\* stays where it is
UnfoldErasesFoldsOnly ==
    (call.op = "strip_folds" /\ ret # << >>) =>
        ret[1] = Without(call.arg, Folded(call.arg), 1)

\* strip_folds has returned for a text with a folded line break and a line
\* break that starts a new line, which it has kept
FoldAndBreakSeen ==
    /\ call.op = "strip_folds" /\ ret # << >>
    /\ Folds(call.arg) # {}
    /\ \E i \in DOMAIN call.arg : call.arg[i] = LF /\ i \notin Folds(call.arg)
    /\ Contains(ret[1], LF)

-----------------------------------------------------------------------------
(* property.rs: RecurRule::from_str *)

\* number of parts (the pieces between ';') of the longest rule string
MaxParts == 3

\* Result: Ok(v) and Err
Ok(v) == [ok |-> TRUE, v |-> v]

Err == [ok |-> FALSE]

Digits == <<"0", "1", "2", "3", "4", "5", "6", "7", "8", "9">>

IsDigit(c) == \E i \in DOMAIN Digits : Digits[i] = c

DigitValue(c) == (CHOOSE i \in DOMAIN Digits : Digits[i] = c) - 1

\* the number the digits of s write after acc, << >> when a character of s
\* is not a digit
RECURSIVE digits(_, _)
digits(s, acc) ==
    IF s = << >> THEN <<acc>>
    ELSE IF IsDigit(s[1]) THEN digits(Tail(s), 10 * acc + DigitValue(s[1]))
    ELSE << >>

\* str::parse::<u64>: an optional '+' and at least one digit; the texts of
\* the model are too short to overflow
parse_unsigned(s) ==
    IF s = << >> THEN << >>
    ELSE IF s[1] = "+" THEN (IF Len(s) = 1 THEN << >> ELSE digits(Tail(s), 0))
    ELSE digits(s, 0)

\* str::parse::<i32>: an optional '+' or '-' and at least one digit
parse_signed(s) ==
    IF s = << >> THEN << >>
    ELSE IF s[1] \in {"+", "-"} THEN
        (IF Len(s) = 1 THEN << >>
         ELSE IF digits(Tail(s), 0) = << >> THEN << >>
         ELSE IF s[1] = "-" THEN <<0 - digits(Tail(s), 0)[1]>>
         ELSE digits(Tail(s), 0))
    ELSE digits(s, 0)

\* one part of a rule string, split at its first '=': the name in upper
\* case and the value; the value of FREQ is its word in upper case, of COUNT
\* and INTERVAL a text, of UNTIL the form of the date and the time it
\* writes, of a BY* part the list of its numbers and of BYDAY the list of
\* its (number, weekday) entries. An UNTIL without 'T' is parsed as a
\* NaiveDateTime with the format %Y%m%d, which chrono refuses for want of a
\* time of day
Part(name, value) == [name |-> name, value |-> value]

Frequencies ==
    <<"Secondly", "Minutely", "Hourly", "Daily", "Weekly", "Monthly", "Yearly">>

FrequencyWords ==
    <<"SECONDLY", "MINUTELY", "HOURLY", "DAILY", "WEEKLY", "MONTHLY", "YEARLY">>

\* the values of a BY* list all lie in lo..hi when abs is FALSE, their
\* absolute values when it is TRUE
in_range(list, lo, hi, abs) ==
    \A i \in DOMAIN list :
        LET v == IF abs /\ list[i] < 0 THEN 0 - list[i] ELSE list[i]
        IN  lo <= v /\ v <= hi

\* end_condition = ... : the end condition a COUNT or UNTIL part leaves
\* when the rule had the end condition old before it
set_end_condition_first_wins(old, new) == IF old.type = "Infinite" THEN new ELSE old

set_end_condition(old, new) == new

\* the checks after the loop accept every combination
illegal_combination_none(frequency, rule) == FALSE

\* the checks of the combinations after the loop over the parts
illegal_combination(frequency, rule) ==
    \/ rule.by_week_number # << >> /\ frequency # "Yearly"
    \/ rule.by_year_day # << >> /\ frequency \in {"Daily", "Weekly", "Monthly"}
    \/ rule.by_month_day # << >> /\ frequency = "Weekly"
    \/ /\ frequency \notin {"Monthly", "Yearly"}
       /\ \E i \in DOMAIN rule.by_day : rule.by_day[i].num # << >>

\* one turn of the loop over the parts: the locals after the part, Err
\* when the part makes from_str fail
parse_part(rule, part) ==
    IF part.name = "FREQ" THEN
        (IF \E i \in DOMAIN FrequencyWords : FrequencyWords[i] = part.value
         THEN Ok([rule EXCEPT !.frequency =
                    <<Frequencies[CHOOSE i \in DOMAIN FrequencyWords : FrequencyWords[i] = part.value]>>])
         ELSE Err)
    ELSE IF part.name = "UNTIL" THEN
        (IF part.value.form = "date-time-utc"
         THEN Ok([rule EXCEPT !.end_condition = set_end_condition(@, UntilUtc(part.value.t))])
         ELSE IF part.value.form = "date-time"
         THEN Ok([rule EXCEPT !.end_condition = set_end_condition(@, Until(part.value.t))])
         ELSE Err)
    ELSE IF part.name = "COUNT" THEN
        (IF parse_unsigned(part.value) = << >> THEN Err
         ELSE Ok([rule EXCEPT !.end_condition = set_end_condition(@, Count(parse_unsigned(part.value)[1]))]))
    ELSE IF part.name = "INTERVAL" THEN
        (IF parse_unsigned(part.value) = << >> THEN Err
         ELSE Ok([rule EXCEPT !.interval = parse_unsigned(part.value)[1]]))
    ELSE IF part.name = "BYSECOND" THEN
        (IF in_range(part.value, 0, 60, FALSE) THEN Ok([rule EXCEPT !.by_second = part.value]) ELSE Err)
    ELSE IF part.name = "BYMINUTE" THEN
        (IF in_range(part.value, 0, 60, FALSE) THEN Ok([rule EXCEPT !.by_minute = part.value]) ELSE Err)
    ELSE IF part.name = "BYHOUR" THEN
        (IF in_range(part.value, 0, 24, FALSE) THEN Ok([rule EXCEPT !.by_hour = part.value]) ELSE Err)
    ELSE IF part.name = "BYDAY" THEN Ok([rule EXCEPT !.by_day = @ \o part.value])
    ELSE IF part.name = "BYMONTHDAY" THEN
        (IF in_range(part.value, 1, 31, TRUE) THEN Ok([rule EXCEPT !.by_month_day = part.value]) ELSE Err)
    ELSE IF part.name = "BYYEARDAY" THEN
        (IF in_range(part.value, 1, 366, TRUE) THEN Ok([rule EXCEPT !.by_year_day = part.value]) ELSE Err)
    ELSE IF part.name = "BYWEEKNO" THEN
        (IF in_range(part.value, 1, 53, TRUE) THEN Ok([rule EXCEPT !.by_week_number = part.value]) ELSE Err)
    ELSE IF part.name = "BYMONTH" THEN
        (IF in_range(part.value, 1, 12, FALSE) THEN Ok([rule EXCEPT !.by_month = part.value]) ELSE Err)
    ELSE IF part.name = "BYSETPOS" THEN
        (IF in_range(part.value, 1, 366, TRUE) THEN Ok([rule EXCEPT !.by_set_pos = part.value]) ELSE Err)
    ELSE IF part.name = "WKST" THEN
        (IF part.value \in 0..6 THEN Ok([rule EXCEPT !.week_start = part.value]) ELSE Err)
    ELSE Err

\* the loop over the parts, from the locals rule on
RECURSIVE parse_parts(_, _)
parse_parts(rule, parts) ==
    IF parts = << >> THEN Ok(rule)
    ELSE IF parse_part(rule, parts[1]).ok
    THEN parse_parts(parse_part(rule, parts[1]).v, Tail(parts))
    ELSE Err

\* the end of from_str on the locals the loop left
finish_rule(rule) ==
    IF rule.frequency = << >> THEN Err
    ELSE IF illegal_combination(rule.frequency[1], rule) THEN Err
    ELSE Ok([rule EXCEPT !.frequency = @[1]])

\* RecurRule::from_str on the parts of a rule string
from_str(parts) ==
    IF parse_parts([BaseRule EXCEPT !.frequency = << >>], parts).ok
    THEN finish_rule(parse_parts([BaseRule EXCEPT !.frequency = << >>], parts).v)
    ELSE Err

\* the parts of the rule strings of the model
RuleParts ==
    {Part("FREQ", FrequencyWords[i]) : i \in DOMAIN FrequencyWords}
    \cup {Part("INTERVAL", <<"0">>), Part("INTERVAL", <<"2">>), Part("COUNT", <<"1", "0">>),
          Part("UNTIL", [form |-> "date-time-utc", t |-> DT(2022, 8, 1, 0, 0)]),
          Part("BYWEEKNO", <<20>>), Part("BYYEARDAY", <<1, -1>>), Part("BYMONTHDAY", <<15>>),
          Part("BYDAY", <<WD(<< >>, 0)>>), Part("BYDAY", <<WD(<<1>>, 0)>>)}

RECURSIVE RuleStrings(_)
RuleStrings(n) ==
    IF n = 0 THEN {<< >>}
    ELSE {Append(r, p) : r \in RuleStrings(n - 1), p \in RuleParts}

RuleInputs == {Call("from_str", r) : r \in UNION {RuleStrings(n) : n \in 0..MaxParts}}

InitRule ==
    /\ call \in RuleInputs
    /\ ret = << >>
    /\ RecurIdle /\ EventIdle /\ CollIdle /\ ZoneIdle

\* rule_value_string.parse::<RecurRule>()
FromStr ==
    /\ call.op = "from_str"
    /\ ret = << >>
    /\ ret' = <<from_str(call.arg)>>
    /\ UNCHANGED <<call, rvars, evars, cvars, zvars>>

NextRule == FromStr

SpecRule == InitRule /\ [][NextRule]_vars

-----------------------------------------------------------------------------
(* Properties of RecurRule::from_str *)

\* from_str has returned for the rule string of the call
Parsed == call.op = "from_str" /\ ret # << >>

\* the rule string of the call has a part of that name
HasPart(name) == \E i \in DOMAIN call.arg : call.arg[i].name = name

\* the place of the last part of the rule string with a name in names
LastPart(names) ==
    CHOOSE i \in DOMAIN call.arg :
        /\ call.arg[i].name \in names
        /\ \A j \in DOMAIN call.arg : call.arg[j].name \in names => j <= i

\* C13: a rule parsed from a string without INTERVAL has interval 1, a
\* string with INTERVAL=0 is rejected, and the interval of a parsed rule is
\* at least 1
IntervalDefaultsToOneAndIsPositive ==
    Parsed =>
        /\ (ret[1].ok /\ ~HasPart("INTERVAL")) => ret[1].v.interval = 1
        /\ (\E i \in DOMAIN call.arg : call.arg[i] = Part("INTERVAL", <<"0">>)) => ~ret[1].ok
        /\ ret[1].ok => ret[1].v.interval >= 1

\* the frequency the rule string names (its last FREQ part)
NamedFrequency ==
    Frequencies[CHOOSE k \in DOMAIN FrequencyWords :
                    FrequencyWords[k] = call.arg[LastPart({"FREQ"})].value]

\* the rule string has a BYDAY entry with a numeric prefix
HasNumberedDay ==
    \E i \in DOMAIN call.arg :
        /\ call.arg[i].name = "BYDAY"
        /\ \E k \in DOMAIN call.arg[i].value : call.arg[i].value[k].num # << >>

\* the rule string combines its frequency with a part that frequency does
\* not allow, wherever the parts stand
IllegalCombination ==
    /\ HasPart("FREQ")
    /\ \/ HasPart("BYWEEKNO") /\ NamedFrequency # "Yearly"
       \/ HasPart("BYYEARDAY") /\ NamedFrequency \in {"Daily", "Weekly", "Monthly"}
       \/ HasPart("BYMONTHDAY") /\ NamedFrequency = "Weekly"
       \/ HasNumberedDay /\ NamedFrequency \notin {"Monthly", "Yearly"}

\* the rule strings made of the parts of parts in another order
Reorderings(parts) ==
    {[i \in DOMAIN parts |-> parts[f[i]]] :
        f \in {g \in [DOMAIN parts -> DOMAIN parts] : \A i, j \in DOMAIN parts : g[i] = g[j] => i = j}}

\* C14: from_str fails for a rule string with BYWEEKNO and a frequency
\* other than yearly, with BYYEARDAY and a daily, weekly or monthly
\* frequency, with BYMONTHDAY and a weekly frequency, or with a numbered
\* BYDAY entry and a frequency that is neither monthly nor yearly, and it
\* fails for every order of the parts of such a string
IllegalCombinationsRejected ==
    (Parsed /\ IllegalCombination) =>
        /\ ~ret[1].ok
        /\ Len(SelectSeq(call.arg, LAMBDA q : q.name = "FREQ")) = 1 =>
               \A r \in Reorderings(call.arg) : ~from_str(r).ok

\* from_str has rejected a rule string that names its frequency after the
\* part the frequency does not allow
IllegalCombinationSeen ==
    /\ Parsed /\ IllegalCombination /\ ~ret[1].ok
    /\ Len(call.arg) = 2
    /\ call.arg[2].name = "FREQ"

\* the end condition a COUNT or UNTIL part writes
EndOf(part) ==
    IF part.name = "COUNT" THEN Count(parse_unsigned(part.value)[1])
    ELSE UntilUtc(part.value.t)

\* C15: a rule string with a frequency, a COUNT and an UNTIL is parsed in
\* either order of the two; the end condition of a parsed rule is the one
\* of the last COUNT or UNTIL part of the string, and Infinite when the
\* string has neither
LaterEndConditionWins ==
    Parsed =>
        /\ (\A i \in DOMAIN call.arg : call.arg[i].name \in {"FREQ", "COUNT", "UNTIL"}) /\ HasPart("FREQ")
               => ret[1].ok
        /\ ret[1].ok =>
               ret[1].v.end_condition =
                   IF HasPart("COUNT") \/ HasPart("UNTIL")
                   THEN EndOf(call.arg[LastPart({"COUNT", "UNTIL"})])
                   ELSE BaseRule.end_condition

\* from_str has parsed a rule string with an UNTIL after a COUNT
CountThenUntilParsed ==
    /\ Parsed /\ ret[1].ok
    /\ \E i, j \in DOMAIN call.arg : i < j /\ call.arg[i].name = "COUNT" /\ call.arg[j].name = "UNTIL"
    /\ ret[1].v.end_condition.type = "UntilUtc"

-----------------------------------------------------------------------------
(* property.rs: parse_offset *)

\* length of the longest text handed to parse_offset
MaxOffsetLen == 6

\* the characters of the values of TZOFFSETFROM and TZOFFSETTO of the model
OffsetChars == {"+", "-", "0", "3", "5"}

\* a call that unwound with a panic
Panicked == [ok |-> FALSE, panic |-> TRUE]

\* FixedOffset::east(secs), which panics out of -86399..86399
east(secs) == IF -86400 < secs /\ secs < 86400 THEN Ok(secs) ELSE Panicked

\* FixedOffset::west(secs)
west(secs) == east(0 - secs)

\* parse_offset
parse_offset(value) ==
    IF value = << >> THEN Err
    ELSE IF value[1] \notin {"+", "-"} \/ Len(value) # 5 THEN Err
    ELSE IF parse_signed(SubSeq(value, 2, 3)) = << >> THEN Err
    ELSE IF parse_signed(From(value, 4)) = << >> THEN Err
    ELSE IF value[1] = "+"
    THEN east(parse_signed(SubSeq(value, 2, 3))[1] * 60 * 60 + parse_signed(From(value, 4))[1])
    ELSE west(parse_signed(SubSeq(value, 2, 3))[1] * 60 * 60 + parse_signed(From(value, 4))[1])

OffsetInputs ==
    {Call("parse_offset", t) : t \in UNION {Texts(OffsetChars, n) : n \in 0..MaxOffsetLen}}

InitOffset ==
    /\ call \in OffsetInputs
    /\ ret = << >>
    /\ RecurIdle /\ EventIdle /\ CollIdle /\ ZoneIdle

\* parse_offset(value)
ParseOffset ==
    /\ call.op = "parse_offset"
    /\ ret = << >>
    /\ ret' = <<parse_offset(call.arg)>>
    /\ UNCHANGED <<call, rvars, evars, cvars, zvars>>

NextOffset == ParseOffset

SpecOffset == InitOffset /\ [][NextOffset]_vars

-----------------------------------------------------------------------------
(* Properties of parse_offset *)

\* the text is a sign followed by exactly four digits
SignAndFourDigits(value) ==
    /\ Len(value) = 5
    /\ value[1] \in {"+", "-"}
    /\ \A i \in 2..5 : IsDigit(value[i])

\* the seconds that sign HH MM writes
SignedSeconds(value) ==
    (IF value[1] = "-" THEN -1 ELSE 1)
        * ((10 * DigitValue(value[2]) + DigitValue(value[3])) * 3600
           + (10 * DigitValue(value[4]) + DigitValue(value[5])) * 60)

\* C16: parse_offset returns sign * (HH * 3600 + MM * 60) seconds for a
\* sign followed by the four digits HH MM, and an error for every other
\* text
OffsetIsSignedHoursAndMinutes ==
    (call.op = "parse_offset" /\ ret # << >>) =>
        IF SignAndFourDigits(call.arg)
        THEN ret[1] = Ok(SignedSeconds(call.arg))
        ELSE ret[1] = Err

-----------------------------------------------------------------------------
(* property.rs: Frequency::advance_date *)

\* the largest interval handed to advance_date
MaxInterval == 14

\* the anchors of test_advance_date and anchors at the end of a month, of a
\* year and on a leap day
AdvanceDates ==
    { DT(2000, 1, 1, 0, 0), DT(2000, 1, 1, 0, 0) + 59, DT(2000, 1, 1, 0, 59),
      DT(2000, 1, 1, 23, 0), DT(2000, 1, 31, 0, 0), DT(2000, 12, 1, 0, 0),
      DT(1999, 12, 31, 23, 59), DT(2004, 2, 29, 10, 30) }

AdvanceInputs ==
    {Call("advance_date", [frequency |-> Frequencies[f], date |-> d, interval |-> n]) :
        f \in DOMAIN Frequencies, d \in AdvanceDates, n \in 0..MaxInterval}

InitAdvance ==
    /\ call \in AdvanceInputs
    /\ ret = << >>
    /\ RecurIdle /\ EventIdle /\ CollIdle /\ ZoneIdle

\* frequency.advance_date(date, interval)
AdvanceDate ==
    /\ call.op = "advance_date"
    /\ ret = << >>
    /\ ret' = <<advance_date(call.arg.frequency, call.arg.date, call.arg.interval)>>
    /\ UNCHANGED <<call, rvars, evars, cvars, zvars>>

NextAdvance == AdvanceDate

SpecAdvance == InitAdvance /\ [][NextAdvance]_vars

-----------------------------------------------------------------------------
(* Properties of Frequency::advance_date *)

\* the months from January of year 0 to the month of t
MonthNo(t) == 12 * year(t) + month0(t)

\* the seconds of one step of the frequencies that add a duration
UnitOf(frequency) ==
    CASE frequency = "Secondly" -> 1
      [] frequency = "Minutely" -> 60
      [] frequency = "Hourly" -> 3600
      [] frequency = "Daily" -> 86400
      [] frequency = "Weekly" -> 7 * 86400

\* C17: advance_date adds interval seconds, minutes, hours, days or weeks
\* for the frequencies Secondly to Weekly; for Monthly it returns the first
\* day of the month interval months later, in the year that month lies in,
\* and for Yearly the first day of the same month interval years later,
\* both at the time of day of the anchor
AdvanceByFrequency ==
    (call.op = "advance_date" /\ ret # << >>) =>
        IF call.arg.frequency = "Monthly"
        THEN /\ ret[1] >= 0
             /\ MonthNo(ret[1]) = MonthNo(call.arg.date) + call.arg.interval
             /\ day(ret[1]) = 1
             /\ TimeOf(ret[1]) = TimeOf(call.arg.date)
        ELSE IF call.arg.frequency = "Yearly"
        THEN /\ ret[1] >= 0
             /\ year(ret[1]) = year(call.arg.date) + call.arg.interval
             /\ month(ret[1]) = month(call.arg.date)
             /\ day(ret[1]) = 1
             /\ TimeOf(ret[1]) = TimeOf(call.arg.date)
        ELSE ret[1] - call.arg.date = call.arg.interval * UnitOf(call.arg.frequency)

\* advance_date has taken a monthly anchor on the 31st of December past the
\* end of the following year
MonthlyCarriedYears ==
    /\ call.op = "advance_date" /\ ret # << >>
    /\ call.arg.frequency = "Monthly"
    /\ month(call.arg.date) = 12 /\ day(call.arg.date) = 31
    /\ year(ret[1]) = year(call.arg.date) + 2

-----------------------------------------------------------------------------
(* property.rs: Property::try_from; components.rs: VEvent::try_from_component *)

\* number of properties of the longest component after its UID and DTSTAMP
MaxProps == 3

LowerCase ==
    <<"a", "b", "c", "d", "e", "f", "g", "h", "i", "j", "k", "l", "m",
      "n", "o", "p", "q", "r", "s", "t", "u", "v", "w", "x", "y", "z">>

UpperCase ==
    <<"A", "B", "C", "D", "E", "F", "G", "H", "I", "J", "K", "L", "M",
      "N", "O", "P", "Q", "R", "S", "T", "U", "V", "W", "X", "Y", "Z">>

\* str::to_ascii_uppercase
to_ascii_uppercase(s) ==
    [i \in DOMAIN s |->
        IF \E k \in DOMAIN LowerCase : LowerCase[k] = s[i]
        THEN UpperCase[CHOOSE k \in DOMAIN LowerCase : LowerCase[k] = s[i]]
        ELSE s[i]]

\* parser::Property: the name as a text and the value; the properties of
\* the model have no parameters. The value of DTSTAMP, DTSTART and DTEND
\* is the form of the date it writes and the time, every other value a word
ParserProperty(name, value) == [name |-> name, value |-> value]

\* DateOrDateTime::parse_from for a value without TZID
date_parse_from(value) ==
    IF value.form = "date" THEN Ok([type |-> "Date", v |-> value.t])
    ELSE IF value.form = "date-time-utc" THEN Ok([type |-> "Utc", v |-> value.t])
    ELSE IF value.form = "date-time" THEN Ok([type |-> "Local", v |-> value.t])
    ELSE Err

\* Property::Other(name, value)
Other(name, value) == [tag |-> "Other", name |-> name, value |-> value]

\* Property::try_from, the arms of the names of the model: UID, DTSTAMP,
\* DTSTART, DTEND and the arm of every name that has no arm of its own.
\* DURATION has none (`// "DURATION" => todo!()`)
property_try_from(property) ==
    IF to_ascii_uppercase(property.name) = <<"U", "I", "D">>
    THEN Ok([tag |-> "UID", value |-> property.value])
    ELSE IF to_ascii_uppercase(property.name) = <<"D", "T", "S", "T", "A", "M", "P">>
    THEN (IF date_parse_from(property.value).ok /\ date_parse_from(property.value).v.type = "Utc"
          THEN Ok([tag |-> "DateTimeStamp", value |-> date_parse_from(property.value).v.v])
          ELSE Err)
    ELSE IF to_ascii_uppercase(property.name) = <<"D", "T", "S", "T", "A", "R", "T">>
    THEN (IF date_parse_from(property.value).ok
          THEN Ok([tag |-> "Start", value |-> date_parse_from(property.value).v])
          ELSE Err)
    ELSE IF to_ascii_uppercase(property.name) = <<"D", "T", "E", "N", "D">>
    THEN (IF date_parse_from(property.value).ok
          THEN Ok([tag |-> "End", value |-> date_parse_from(property.value).v])
          ELSE Err)
    ELSE Ok(Other(property.name, property.value))

\* the locals of try_from_component before its loop
NoProperties ==
    [uid |-> << >>, dtstamp |-> << >>, dtstart |-> << >>, duration |-> << >>, dtend |-> << >>,
     properties |-> << >>]

\* one turn of the loop of try_from_component over a decoded property
take_property(locals, parsed) ==
    IF parsed.tag = "UID" THEN [locals EXCEPT !.uid = <<parsed.value>>]
    ELSE IF parsed.tag = "DateTimeStamp" THEN [locals EXCEPT !.dtstamp = <<parsed.value>>]
    ELSE IF parsed.tag = "Start" THEN [locals EXCEPT !.dtstart = <<parsed.value>>]
    ELSE IF parsed.tag = "Duration" THEN [locals EXCEPT !.duration = <<parsed.value>>]
    ELSE IF parsed.tag = "End" THEN [locals EXCEPT !.dtend = <<parsed.value>>]
    ELSE [locals EXCEPT !.properties = Append(@, parsed)]

\* the loop of try_from_component: Err when a property does not decode
RECURSIVE take_properties(_, _)
take_properties(locals, properties) ==
    IF properties = << >> THEN Ok(locals)
    ELSE IF property_try_from(properties[1]).ok
    THEN take_properties(take_property(locals, property_try_from(properties[1]).v), Tail(properties))
    ELSE Err

\* the duration DTSTART and DTEND give: end - start for two dates,
\* IcalDateTime::sub for two date-times, which fails for a floating and a
\* UTC time
duration_of(dtstart, dtend) ==
    IF dtstart.type = "Date" /\ dtend.type = "Date" THEN Ok(dtend.v - dtstart.v)
    ELSE IF dtstart.type = "Date" \/ dtend.type = "Date" THEN Err
    ELSE IF dtstart.type = dtend.type THEN Ok(dtend.v - dtstart.v)
    ELSE Err

\* try_from_component after its loop, for a component without RRULE,
\* RDATE, EXDATE and RECURRENCE-ID
finish_event(locals) ==
    IF locals.uid = << >> THEN Err
    ELSE IF locals.duration # << >> /\ locals.dtend # << >> THEN Err
    ELSE IF locals.dtend # << >> /\ locals.dtstart = << >> THEN Err
    ELSE IF locals.dtend # << >> /\ ~duration_of(locals.dtstart[1], locals.dtend[1]).ok THEN Err
    ELSE IF locals.dtstamp = << >> THEN Err
    ELSE Ok([uid |-> locals.uid[1], dtstamp |-> locals.dtstamp[1], dtstart |-> locals.dtstart,
             duration |-> IF locals.dtend # << >>
                          THEN <<duration_of(locals.dtstart[1], locals.dtend[1]).v>>
                          ELSE locals.duration,
             properties |-> locals.properties])

\* VEvent::try_from_component
try_from_component(component) ==
    IF to_ascii_uppercase(component.name) # <<"V", "E", "V", "E", "N", "T">> THEN Err
    ELSE IF take_properties(NoProperties, component.properties).ok
    THEN finish_event(take_properties(NoProperties, component.properties).v)
    ELSE Err

\* the properties of the components of the model
UidLine == ParserProperty(<<"U", "I", "D">>, "uid-1")

StampLine ==
    ParserProperty(<<"D", "T", "S", "T", "A", "M", "P">>, [form |-> "date-time-utc", t |-> DT(2022, 1, 1, 0, 0)])

PropertyLines ==
    {ParserProperty(<<"D", "T", "S", "T", "A", "R", "T">>, v) :
        v \in {[form |-> "date", t |-> DT(2022, 3, 25, 0, 0)],
               [form |-> "date-time-utc", t |-> DT(2022, 3, 25, 9, 0)],
               [form |-> "date-time", t |-> DT(2022, 3, 25, 9, 0)]}}
    \cup {ParserProperty(<<"D", "T", "E", "N", "D">>, v) :
        v \in {[form |-> "date", t |-> DT(2022, 3, 26, 0, 0)],
               [form |-> "date-time-utc", t |-> DT(2022, 3, 25, 10, 0)]}}
    \cup {ParserProperty(<<"D", "U", "R", "A", "T", "I", "O", "N">>, "PT1H"),
          ParserProperty(<<"X", "-", "A">>, "one"), ParserProperty(<<"x", "-", "a">>, "two")}

RECURSIVE PropertyLists(_)
PropertyLists(n) ==
    IF n = 0 THEN {<< >>}
    ELSE {Append(l, p) : l \in PropertyLists(n - 1), p \in PropertyLines}

ComponentInputs ==
    {Call("try_from_component", [name |-> <<"V", "E", "V", "E", "N", "T">>, properties |-> h \o l]) :
        h \in {<< >>, <<UidLine>>, <<UidLine, StampLine>>},
        l \in UNION {PropertyLists(n) : n \in 0..MaxProps}}

InitComponent ==
    /\ call \in ComponentInputs
    /\ ret = << >>
    /\ RecurIdle /\ EventIdle /\ CollIdle /\ ZoneIdle

\* VEvent::try_from_component(component, calendar)
TryFromComponent ==
    /\ call.op = "try_from_component"
    /\ ret = << >>
    /\ ret' = <<try_from_component(call.arg)>>
    /\ UNCHANGED <<call, rvars, evars, cvars, zvars>>

NextComponent == TryFromComponent

SpecComponent == InitComponent /\ [][NextComponent]_vars

-----------------------------------------------------------------------------
(* Properties of VEvent::try_from_component *)

\* try_from_component has returned for the component of the call
Built == call.op = "try_from_component" /\ ret # << >>

\* the values of the properties of the component with that name, in order
ValuesOf(name) ==
    SelectSeq(call.arg.properties, LAMBDA q : to_ascii_uppercase(q.name) = name)

\* the shape of the value of a DTSTART or DTEND: a date or a date-time
ShapeOf(property) == IF property.value.form = "date" THEN "date" ELSE "date-time"

\* C18: try_from_component fails for a component with both a DURATION and
\* a DTEND, for one with a DTEND and no DTSTART, and for one whose DTSTART
\* is a date and whose DTEND is a date-time or the reverse
ConflictingTimingsRejected ==
    Built =>
        LET starts == ValuesOf(<<"D", "T", "S", "T", "A", "R", "T">>)
            ends == ValuesOf(<<"D", "T", "E", "N", "D">>)
            durations == ValuesOf(<<"D", "U", "R", "A", "T", "I", "O", "N">>)
        IN  (\/ durations # << >> /\ ends # << >>
             \/ ends # << >> /\ starts = << >>
             \/ ends # << >> /\ starts # << >> /\ ShapeOf(Last(starts)) # ShapeOf(Last(ends)))
                => ~ret[1].ok

\* C19: the properties of the component whose name has no arm of its own
\* are kept in the properties of the VEvent as Other(name in upper case,
\* value), in the order of the component; decoding them is never an error
UnknownPropertiesKept ==
    Built =>
        /\ \A i \in DOMAIN call.arg.properties :
               to_ascii_uppercase(call.arg.properties[i].name) = <<"X", "-", "A">>
                   => property_try_from(call.arg.properties[i]).ok
        /\ ret[1].ok =>
               SelectSeq(ret[1].v.properties, LAMBDA q : to_ascii_uppercase(q.name) = <<"X", "-", "A">>)
                   = [i \in DOMAIN ValuesOf(<<"X", "-", "A">>) |->
                         Other(<<"X", "-", "A">>, ValuesOf(<<"X", "-", "A">>)[i].value)]

-----------------------------------------------------------------------------
(* property.rs: RecurIter::next, the BYSETPOS selection *)

\* length of the longest BYSETPOS list
MaxSetPos == 2

\* the BYSETPOS values of the model
SetPositions == {-2, -1, 1, 2, 3}

RECURSIVE SetPosLists(_)
SetPosLists(n) ==
    IF n = 0 THEN {<< >>}
    ELSE {Append(l, p) : l \in SetPosLists(n - 1), p \in SetPositions}

\* rules with a BYSETPOS list and the date set one anchor expands to:
\* FREQ=MONTHLY;BYDAY=MO,WE, FREQ=MONTHLY;BYDAY=MO,TU,WE,TH,FR,
\* FREQ=WEEKLY;BYDAY=WE,FR and FREQ=DAILY;BYHOUR=9,17
SetPosInputs ==
    {Call("apply_set_pos", [recur |-> [shape EXCEPT !.by_set_pos = l],
                            date_set |-> expand_date_set(s, shape)]) :
        shape \in {[BaseRule EXCEPT !.frequency = "Monthly", !.by_day = <<WD(<< >>, 0), WD(<< >>, 2)>>],
                   [BaseRule EXCEPT !.frequency = "Monthly",
                        !.by_day = <<WD(<< >>, 0), WD(<< >>, 1), WD(<< >>, 2), WD(<< >>, 3), WD(<< >>, 4)>>],
                   [BaseRule EXCEPT !.frequency = "Weekly", !.by_day = <<WD(<< >>, 2), WD(<< >>, 4)>>],
                   [BaseRule EXCEPT !.by_hour = <<9, 17>>]},
        s \in Starts,
        l \in UNION {SetPosLists(n) : n \in 1..MaxSetPos}}

InitSetPos ==
    /\ call \in SetPosInputs
    /\ ret = << >>
    /\ RecurIdle /\ EventIdle /\ CollIdle /\ ZoneIdle

\* RecurIter::next: date_set = by_set_pos.iter()...map(|pos| date_set[pos]).collect()
ApplySetPos ==
    /\ call.op = "apply_set_pos"
    /\ ret = << >>
    /\ ret' = <<apply_set_pos(call.arg.recur, call.arg.date_set)>>
    /\ UNCHANGED <<call, rvars, evars, cvars, zvars>>

NextSetPos == ApplySetPos

SpecSetPos == InitSetPos /\ [][NextSetPos]_vars

-----------------------------------------------------------------------------
(* Properties of the BYSETPOS selection *)

\* the place in a date set of size elements that the BYSETPOS value p
\* names: the p-th from the start, or the -p-th from the end
PlaceOf(p, size) == IF p > 0 THEN p ELSE size + p + 1

\* C20: for a BYSETPOS list whose values all name a place of the date set,
\* the selection is the list of the elements at those places, in the order
\* of the BYSETPOS values, a negative value counting from the end of the
\* date set
SetPosSelectsFromDateSet ==
    (/\ call.op = "apply_set_pos" /\ ret # << >>
     /\ \A k \in DOMAIN call.arg.recur.by_set_pos :
            PlaceOf(call.arg.recur.by_set_pos[k], Len(call.arg.date_set)) \in DOMAIN call.arg.date_set)
        => ret[1] = [k \in DOMAIN call.arg.recur.by_set_pos |->
                        call.arg.date_set[PlaceOf(call.arg.recur.by_set_pos[k], Len(call.arg.date_set))]]

-----------------------------------------------------------------------------
(* components.rs: get_effective_offset *)

\* a list of three rules with different offsets, the first two with an
\* UNTIL: the second starts a year after the UNTIL of the first
ThreeRules ==
    <<OffsetRule(3600, 0, DT(2000, 10, 29, 2, 0),
                 <<[YearlySunday(10, -1) EXCEPT !.end_condition = UntilUtc(DT(2004, 10, 31, 1, 0))]>>),
      OffsetRule(7200, 3600, DT(2005, 10, 30, 3, 0),
                 <<[YearlySunday(10, -1) EXCEPT !.end_condition = UntilUtc(DT(2009, 10, 25, 1, 0))]>>),
      OffsetRule(-3600, 0, DT(2009, 10, 25, 2, 0), <<YearlySunday(10, -1)>>)>>

RuleLists ==
    {NewYork.standard, NewYork.daylight, London.standard, Kolkata.standard, Kolkata.daylight, ThreeRules}

\* the dates a list is asked for: around the start and the UNTIL of each of
\* its rules, in local time and in UTC, and the dates of test_new_york
DatesAround(slice) ==
    UNION {{slice[i].start + k, slice[i].start - slice[i].offset_from + k} \cup
           (IF slice[i].recur # << >> /\ slice[i].recur[1].end_condition.type = "UntilUtc"
            THEN {slice[i].recur[1].end_condition.v + k,
                  slice[i].recur[1].end_condition.v + slice[i].offset_from + k}
            ELSE {}) : i \in DOMAIN slice, k \in {-1, 0, 1}}
    \cup ZoneDates(NewYork)

EffectiveInputs ==
    UNION {{Call("get_effective_offset", [slice |-> l, date |-> d, local |-> b]) :
                d \in DatesAround(l), b \in BOOLEAN} : l \in RuleLists}

InitEffective ==
    /\ call \in EffectiveInputs
    /\ ret = << >>
    /\ RecurIdle /\ EventIdle /\ CollIdle /\ ZoneIdle

\* get_effective_offset(slice, date, local)
GetEffectiveOffset ==
    /\ call.op = "get_effective_offset"
    /\ ret = << >>
    /\ ret' = <<get_effective_offset(call.arg.slice, call.arg.date, call.arg.local)>>
    /\ UNCHANGED <<call, rvars, evars, cvars, zvars>>

NextEffective == GetEffectiveOffset

SpecEffective == InitEffective /\ [][NextEffective]_vars

-----------------------------------------------------------------------------
(* Properties of get_effective_offset *)

\* the date of the call as the rule r sees it: as it is when it is local,
\* shifted by the rule's offset_from when it is absolute
SeenBy(r) == IF call.arg.local THEN call.arg.date ELSE call.arg.date + r.offset_from

\* the recurrence of r ends with an UntilUtc that lies before the date,
\* taken at the rule's offset_from
PastUntil(r) ==
    /\ r.recur # << >>
    /\ r.recur[1].end_condition.type = "UntilUtc"
    /\ SeenBy(r) - r.offset_from > r.recur[1].end_condition.v

\* the places of the rules of the list that are in force as the `from` of a
\* pair of neighbours
PairsInForce ==
    {i \in 1..(Len(call.arg.slice) - 1) :
        /\ call.arg.slice[i].start <= SeenBy(call.arg.slice[i])
        /\ SeenBy(call.arg.slice[i]) < call.arg.slice[i + 1].start
        /\ ~PastUntil(call.arg.slice[i])}

\* C23: get_effective_offset returns the first rule that is in force as
\* the `from` of a pair of neighbours; when there is none it returns the
\* last rule if the date is at or after its start and not past its
\* UntilUtc; otherwise it returns None
EffectiveRuleSelected ==
    (call.op = "get_effective_offset" /\ ret # << >>) =>
        ret[1] = IF PairsInForce # {}
                 THEN <<call.arg.slice[CHOOSE i \in PairsInForce : \A j \in PairsInForce : i <= j]>>
                 ELSE IF /\ call.arg.slice # << >>
                         /\ Last(call.arg.slice).start <= SeenBy(Last(call.arg.slice))
                         /\ ~PastUntil(Last(call.arg.slice))
                 THEN <<Last(call.arg.slice)>>
                 ELSE << >>

\* get_effective_offset has returned None for an absolute date that lies
\* between the start of the first rule and the start of the second and
\* past the UntilUtc of the first
PastUntilSkipped ==
    /\ call.op = "get_effective_offset" /\ ret = <<<< >>>>
    /\ ~call.arg.local
    /\ Len(call.arg.slice) >= 2
    /\ call.arg.slice[1].start <= SeenBy(call.arg.slice[1])
    /\ SeenBy(call.arg.slice[1]) < call.arg.slice[2].start
    /\ PastUntil(call.arg.slice[1])

-----------------------------------------------------------------------------
(* property.rs: Period::parse_from *)

\* the number of digits s begins with
RECURSIVE leading_digits(_)
leading_digits(s) ==
    IF s = << >> THEN 0
    ELSE IF IsDigit(s[1]) THEN 1 + leading_digits(Tail(s))
    ELSE 0

\* one match of T?([0-9]+)([WDHMS]) at the start of s: the digits, the
\* letter and what follows the match; << >> when s does not begin with one
component_of(s, t) ==
    IF leading_digits(t) = 0 \/ leading_digits(t) = Len(t) THEN << >>
    ELSE IF t[leading_digits(t) + 1] \notin {"W", "D", "H", "M", "S"} THEN << >>
    ELSE <<[digits |-> SubSeq(t, 1, leading_digits(t)), length |-> t[leading_digits(t) + 1],
            rest |-> From(t, leading_digits(t) + 2)]>>

component_at(s) == component_of(s, IF s # << >> /\ s[1] = "T" THEN Tail(s) ELSE s)

\* (?:T?([0-9]+)([WDHMS]))+ from the start of s on: the groups keep what
\* their last repetition matched; last is the repetition before s
RECURSIVE last_component(_, _)
last_component(s, last) ==
    IF component_at(s) = << >> THEN last
    ELSE last_component(component_at(s)[1].rest, component_at(s))

\* the match of (-?P)(?:T?([0-9]+)([WDHMS]))+ that begins at the start of
\* s, << >> when there is none
match_at(s) ==
    IF s # << >> /\ s[1] = "P" /\ component_at(Tail(s)) # << >>
    THEN <<[period |-> <<"P">>, last |-> last_component(Tail(s), << >>)[1]]>>
    ELSE IF Len(s) >= 2 /\ s[1] = "-" /\ s[2] = "P" /\ component_at(From(s, 3)) # << >>
    THEN <<[period |-> <<"-", "P">>, last |-> last_component(From(s, 3), << >>)[1]]>>
    ELSE << >>

\* Regex::captures: the leftmost match in s
RECURSIVE captures(_)
captures(s) ==
    IF s = << >> THEN << >>
    ELSE IF match_at(s) # << >> THEN match_at(s)
    ELSE captures(Tail(s))

\* Duration::weeks, days, hours, minutes, seconds for the letter length
duration_part(length, duration_value) ==
    duration_value * (CASE length = "W" -> 7 * 86400 [] length = "D" -> 86400
                        [] length = "H" -> 3600 [] length = "M" -> 60 [] length = "S" -> 1)

\* IcalDateTime::sub past its early returns; left is cal.get_time(self),
\* and the time of an `other` in a zone is taken with cal.get_time(self) too
sub_in_calendar(other, left) ==
    IF left.kind = "err" THEN Err
    ELSE IF left.kind = "panic" THEN Panicked
    ELSE IF other.kind = "Local" THEN Err
    ELSE IF other.kind = "Utc" THEN Ok(left.v - other.date)
    ELSE Ok(left.v - left.v)

\* IcalDateTime::sub(self, other, vcalendar); vcalendar is << >> for None
ical_sub(self, other, vcalendar) ==
    IF self.kind = other.kind /\ (self.kind \in {"Local", "Utc"} \/ self.tzid = other.tzid)
    THEN Ok(self.date - other.date)
    ELSE IF vcalendar = << >> \/ self.kind = "Local" THEN Err
    ELSE sub_in_calendar(other, get_time(vcalendar[1], self))

\* the IcalDateTime of a parsed date-time without TZID
ical_of(d) == IcalDateTime(d.type, d.v, "")

\* Period::parse_from after split_once('/'): start is the value before the
\* '/', end the text after it, or the date it writes when it is a date
period_parse_from(start, end) ==
    IF ~date_parse_from(start).ok THEN Err
    ELSE IF date_parse_from(start).v.type = "Date" THEN Err
    ELSE IF end.kind = "text" /\ captures(end.text) # << >> THEN
        Ok([start |-> date_parse_from(start).v,
            duration |->
                (IF captures(end.text)[1].period = <<"-", "P">> THEN -1 ELSE 1)
                    * duration_part(captures(end.text)[1].last.length,
                                    digits(captures(end.text)[1].last.digits, 0)[1])])
    ELSE IF end.kind = "text" THEN Err
    ELSE IF ~date_parse_from(end.date).ok THEN Err
    ELSE IF date_parse_from(end.date).v.type = "Date" THEN Err
    ELSE IF ical_sub(ical_of(date_parse_from(end.date).v), ical_of(date_parse_from(start).v), << >>).ok
    THEN Ok([start |-> date_parse_from(start).v,
             duration |-> ical_sub(ical_of(date_parse_from(end.date).v),
                                   ical_of(date_parse_from(start).v), << >>).v])
    ELSE Err

\* the duration suffixes [-]P[nW][nD][T[nH][nM][nS]] of the model
DurationText(sign, w, d, h, m, sec) ==
    sign \o <<"P">> \o w \o d \o (IF h \o m \o sec = << >> THEN << >> ELSE <<"T">>) \o h \o m \o sec

DurationTexts ==
    {DurationText(sign, w, d, h, m, sec) :
        sign \in {<< >>, <<"-">>}, w \in {<< >>, <<"1", "W">>}, d \in {<< >>, <<"1", "5", "D">>},
        h \in {<< >>, <<"5", "H">>, <<"1", "H">>}, m \in {<< >>, <<"0", "M">>},
        sec \in {<< >>, <<"2", "0", "S">>}}

\* the values before the '/': 2000-01-01T00:00:00 floating and in UTC, and
\* the date 2000-01-01
PeriodStarts ==
    {[form |-> f, t |-> DT(2000, 1, 1, 0, 0)] : f \in {"date-time", "date-time-utc", "date"}}

PeriodInputs ==
    {Call("period_parse_from", [start |-> a, end |-> [kind |-> "text", text |-> t]]) :
        a \in PeriodStarts, t \in DurationTexts}
    \cup {Call("period_parse_from", [start |-> a, end |-> [kind |-> "date", date |-> [form |-> f, t |-> e]]]) :
        a \in PeriodStarts, f \in {"date-time", "date-time-utc", "date"},
        e \in {DT(2000, 1, 1, 1, 0), DT(2000, 1, 1, 0, 0), DT(1999, 12, 31, 0, 0)}}

InitPeriod ==
    /\ call \in PeriodInputs
    /\ ret = << >>
    /\ RecurIdle /\ EventIdle /\ CollIdle /\ ZoneIdle

\* Period::parse_from(value, params)
PeriodParseFrom ==
    /\ call.op = "period_parse_from"
    /\ ret = << >>
    /\ ret' = <<period_parse_from(call.arg.start, call.arg.end)>>
    /\ UNCHANGED <<call, rvars, evars, cvars, zvars>>

NextPeriod == PeriodParseFrom

SpecPeriod == InitPeriod /\ [][NextPeriod]_vars

-----------------------------------------------------------------------------
(* Properties of Period::parse_from *)

\* the seconds of all the components nW, nD, nH, nM, nS of s together
RECURSIVE SumOfComponents(_)
SumOfComponents(s) ==
    IF s = << >> THEN 0
    ELSE IF component_at(s) # << >>
    THEN duration_part(component_at(s)[1].length, digits(component_at(s)[1].digits, 0)[1])
            + SumOfComponents(component_at(s)[1].rest)
    ELSE SumOfComponents(Tail(s))

\* C24: for a period start/duration the duration of the Period is the sum
\* of all the components of the suffix, negated when the suffix begins with
\* '-'; for a period start/end it is end minus start
PeriodDurationIsSum ==
    (call.op = "period_parse_from" /\ ret # << >> /\ ret[1].ok) =>
        ret[1].v.duration =
            IF call.arg.end.kind = "text"
            THEN (IF call.arg.end.text[1] = "-" THEN -1 ELSE 1) * SumOfComponents(call.arg.end.text)
            ELSE call.arg.end.date.t - call.arg.start.t

-----------------------------------------------------------------------------
(* property.rs: expand_dates, the BYDAY part of a MONTHLY rule and the
   BYWEEKNO part of a YEARLY rule *)

\* the largest |N| of a BYDAY prefix in the model
MaxNum == 5

\* BYDAY prefixes: none, and N with 1 <= |N| <= MaxNum
NumPrefixes == {<< >>} \cup {<<n>> : n \in ((0 - MaxNum)..MaxNum) \ {0}}

\* FREQ=MONTHLY;BYDAY=<one entry>, and two lists of two entries
MonthlyByDay ==
    {[BaseRule EXCEPT !.frequency = "Monthly", !.by_day = <<WD(n, wd)>>] : n \in NumPrefixes, wd \in 0..6}
    \cup {[BaseRule EXCEPT !.frequency = "Monthly", !.by_day = l] :
            l \in {<<WD(<<1>>, 0), WD(<<-1>>, 4)>>, <<WD(<< >>, 2), WD(<<2>>, 2)>>}}

\* anchors in a month of 31 days, in a February of 28 days and in one of 29
MonthAnchors == {DT(2022, 1, 31, 9, 0), DT(2022, 2, 14, 9, 0), DT(2024, 2, 1, 0, 0)}

\* FREQ=YEARLY;BYWEEKNO=<list>
YearlyByWeekNo ==
    {[BaseRule EXCEPT !.frequency = "Yearly", !.by_week_number = l] :
        l \in {<<w>> : w \in {1, 5, 6, 20, 30, 31, 52, 53, -1, -2, -52, -53}}
              \cup {<<30, 40>>, <<5, 30>>, <<40, 30>>}}

\* anchors in ISO weeks 30 and 5 of 2022, in week 1 of 2020 (a year of 53
\* weeks), and on a Sunday, the last day of week 5 of 2022
YearAnchors == {DT(2022, 7, 26, 10, 0), DT(2022, 1, 31, 9, 0), DT(2020, 1, 1, 0, 0), DT(2022, 2, 6, 9, 0)}

ExpandInputs ==
    {Call("expand_dates", [recur |-> r, date |-> d]) : r \in MonthlyByDay, d \in MonthAnchors}
    \cup {Call("expand_dates", [recur |-> r, date |-> d]) : r \in YearlyByWeekNo, d \in YearAnchors}

InitExpand ==
    /\ call \in ExpandInputs
    /\ ret = << >>
    /\ RecurIdle /\ EventIdle /\ CollIdle /\ ZoneIdle

\* expand_dates(recur, vec![date])
ExpandDates ==
    /\ call.op = "expand_dates"
    /\ ret = << >>
    /\ ret' = <<expand_dates(call.arg.recur, <<call.arg.date>>)>>
    /\ UNCHANGED <<call, rvars, evars, cvars, zvars>>

NextExpand == ExpandDates

SpecExpand == InitExpand /\ [][NextExpand]_vars

-----------------------------------------------------------------------------
(* Properties of expand_dates *)

\* the values of the sequence s
Range(s) == {s[i] : i \in DOMAIN s}

\* the days of the month of d that fall on the weekday wd, at the time of d
Occurrences(d, wd) ==
    {t \in {with_day(d, k) : k \in 1..get_days_in_month(d)} : weekday(t) = wd}

\* the dates one BYDAY entry stands for in the month of d
EntryDates(d, e) ==
    IF e.num = << >> THEN Occurrences(d, e.day)
    ELSE IF e.num[1] > 0
    THEN {t \in Occurrences(d, e.day) : Cardinality({u \in Occurrences(d, e.day) : u < t}) = e.num[1] - 1}
    ELSE {t \in Occurrences(d, e.day) : Cardinality({u \in Occurrences(d, e.day) : u > t}) = (0 - e.num[1]) - 1}

MonthlyByDayExpanded ==
    /\ call.op = "expand_dates" /\ ret # << >>
    /\ call.arg.recur.frequency = "Monthly" /\ call.arg.recur.by_day # << >>

\* C25: the BYDAY part of a MONTHLY rule expands an anchor to every
\* occurrence of the weekday in the anchor's month for an entry without a
\* prefix, to the N-th occurrence from the start (N > 0) or from the end
\* (N < 0) for an entry with the prefix N, and to nothing when the month
\* has fewer than |N| occurrences
MonthlyByDayNth ==
    MonthlyByDayExpanded =>
        /\ ret[1] # PanicSet
        /\ Range(ret[1]) = UNION {EntryDates(call.arg.date, call.arg.recur.by_day[j]) :
                                    j \in DOMAIN call.arg.recur.by_day}

YearlyByWeekNoExpanded ==
    /\ call.op = "expand_dates" /\ ret # << >>
    /\ call.arg.recur.frequency = "Yearly" /\ call.arg.recur.by_week_number # << >>

\* the ISO week a BYWEEKNO value names in the year of d
WeekNamed(d, s) == IF s > 0 THEN s ELSE weeks_of_iso_year(year(d)) + s + 1

\* C27: the BYWEEKNO part of a YEARLY rule expands an anchor to one date in
\* each listed ISO week of the anchor's year, a negative week number
\* counting from the end of the year's 52 or 53 weeks
YearlyByWeekNoOnePerWeek ==
    YearlyByWeekNoExpanded =>
        /\ ret[1] # PanicSet
        /\ Len(ret[1]) = Len(call.arg.recur.by_week_number)
        /\ \A j \in DOMAIN call.arg.recur.by_week_number :
                WeekNamed(call.arg.date, call.arg.recur.by_week_number[j]) \in 1..weeks_of_iso_year(year(call.arg.date))
                    => /\ iso_week(ret[1][j]) = WeekNamed(call.arg.date, call.arg.recur.by_week_number[j])
                       /\ year(ret[1][j]) = year(call.arg.date)

-----------------------------------------------------------------------------
(* components.rs: the RECURRENCE-ID of a VEVENT and the key of an override *)

\* the zones of the calendar the overrides are parsed in
KeyCalendar == <<London, Kolkata>>

\* VEvent::try_from_component, recur_offset: RECURRENCE-ID minus the DTSTART
\* of the same VEVENT
recur_offset(dtstart, recur_id, calendar) ==
    IF dtstart.kind = "Date" /\ recur_id.kind = "Date" THEN Ok(recur_id.date - dtstart.date)
    ELSE IF dtstart.kind = "Date" \/ recur_id.kind = "Date" THEN Err
    ELSE ical_sub(recur_id, dtstart, <<calendar>>)

\* the recur_id of the Timings of the VEVENT, start + offset in the form of
\* its DTSTART, as EventCollection::try_from makes it the key of the
\* override (the Local variants are a todo!())
key_of(dtstart, offset) ==
    IF ~offset.ok THEN offset
    ELSE IF dtstart.kind = "Local" THEN Panicked
    ELSE Ok(IcalDateTime(dtstart.kind, dtstart.date + offset.v, dtstart.tzid))

override_key(dtstart, recur_id, calendar) == key_of(dtstart, recur_offset(dtstart, recur_id, calendar))

\* the forms a DTSTART or RECURRENCE-ID is written in
KeyForms(t) ==
    {IcalDateTime("Utc", t, ""), IcalDateTime("TZ", t, "Europe/London"),
     IcalDateTime("TZ", t, "Asia/Kolkata"), IcalDateTime("Local", t, ""),
     IcalDateTime("TZ", t, "Europe/Paris")}

\* a winter afternoon, an hour later, and a summer morning
KeyDates == {DT(2022, 2, 22, 15, 30), DT(2022, 2, 22, 16, 30), DT(2022, 7, 26, 10, 0)}

\* a VEVENT with DTSTART and RECURRENCE-ID in a collection whose base
\* event has a DTSTART of the form base
KeyInputs ==
    {Call("override_key", [dtstart |-> a, recur_id |-> b, base |-> a.kind]) :
        a \in UNION {KeyForms(t) : t \in KeyDates}, b \in UNION {KeyForms(t) : t \in KeyDates}}
    \cup {Call("override_key", [dtstart |-> a, recur_id |-> b, base |-> k]) :
            a \in {IcalDateTime("Date", DT(2022, 2, 22, 0, 0), ""), IcalDateTime("Utc", DT(2022, 2, 22, 15, 30), "")},
            b \in {IcalDateTime("Date", DT(2022, 2, 23, 0, 0), "")}, k \in {"Date", "Utc"}}
    \cup {Call("override_key", [dtstart |-> IcalDateTime("TZ", t, "Europe/London"),
                                recur_id |-> IcalDateTime("Utc", t, ""), base |-> "Utc"]) : t \in KeyDates}

InitKey ==
    /\ call \in KeyInputs
    /\ ret = << >>
    /\ RecurIdle /\ EventIdle /\ CollIdle /\ ZoneIdle

\* the key of the override parsed from a VEVENT with DTSTART and RECURRENCE-ID
OverrideKey ==
    /\ call.op = "override_key"
    /\ ret = << >>
    /\ ret' = <<override_key(call.arg.dtstart, call.arg.recur_id, KeyCalendar)>>
    /\ UNCHANGED <<call, rvars, evars, cvars, zvars>>

NextKey == OverrideKey

SpecKey == InitKey /\ [][NextKey]_vars

-----------------------------------------------------------------------------
(* Properties of the key of an override *)

\* the instant d denotes: its date for a date, calendar.get_time otherwise
InstantOf(d) == IF d.kind = "Date" THEN [kind |-> "ok", v |-> d.date] ELSE get_time(KeyCalendar, d)

\* C26: the key an override is stored under denotes the instant of its
\* RECURRENCE-ID, whatever the forms DTSTART and RECURRENCE-ID are written
\* in (UTC, a named zone, two different zones), and has the form of the
\* DTSTART of the base event
OverrideKeyIsRecurrenceId ==
    (call.op = "override_key" /\ ret # << >> /\ ret[1].ok) =>
        /\ ret[1].v.kind = call.arg.base
        /\ InstantOf(ret[1].v).kind = "ok"
        /\ InstantOf(ret[1].v) = InstantOf(call.arg.recur_id)

====
